---------------------------- MODULE Spec2Model ----------------------------
(***************************************************************************)
(* A model of rexlib: the REX shallow parsing expression (rex.py), the     *)
(* tokenizer and the token classes (tokens.py).                            *)
(*                                                                         *)
(* Strings are sequences of one-character strings.  A position p is the    *)
(* 1-based index of the next character to read, so Python's offset is      *)
(* p - 1.  A scanner  X(s, p)  models the regular expression X of rex.py   *)
(* applied to s at p: it is the position after the match, or 0 when X does *)
(* not match there.                                                        *)
(***************************************************************************)
EXTENDS Integers, Sequences, FiniteSets, TLC

VARIABLES
    input,      \* tokenize: the string being tokenized
    pos,        \* tokenize: position of the next match (finditer's cursor)
    tokens,     \* tokenize: the tokens yielded so far
    mspans,     \* tokenize: m.span() of the match behind each yielded token
    pc,         \* tokenize: "scan", "done" or "raised"
    encoding,   \* Token.encoding, the class attribute XmlDecl overwrites
    tok,        \* a token object under mutation
    last,       \* the last operation applied to tok, its arguments and result
    raised,     \* the exception the last operation on tok raised, or "none"
    inserted,   \* the attribute names of tok, as the calls inserted them
    filter,     \* the filter of token_filters.py that runs over tokens, or "none"
    keep_minimized, \* expand_empty_tags: the names to keep minimized
    consumed,   \* how many of tokens the filter has taken from the iterator
    stack,      \* the filter's stack of open Start tokens or names
    yielded,    \* the tokens the filter has yielded
    contexts,   \* find_all_contexts: the keys of the contexts dict
    message     \* the text of the exception the filter raised

vars ==
    <<input, pos, tokens, mspans, pc, encoding, tok, last, raised, inserted,
      filter, keep_minimized, consumed, stack, yielded, contexts, message>>

-----------------------------------------------------------------------------
(* Characters and strings *)

DQ == "\""
SQ == "'"

Lower == {"a","b","c","d","e","f","g","h","i","j","k","l","m",
          "n","o","p","q","r","s","t","u","v","w","x","y","z"}
Upper == {"A","B","C","D","E","F","G","H","I","J","K","L","M",
          "N","O","P","Q","R","S","T","U","V","W","X","Y","Z"}
Digit == {"0","1","2","3","4","5","6","7","8","9"}

\* [ \n\t\r] of S and S1
SChars == {" ", "\n", "\t", "\r"}
\* the characters str.strip(), str.split(None) and \s treat as whitespace
PyWs == {" ", "\n", "\t", "\r", "\f"}
\* NameStrt and NameChar, on ASCII input
NameStrt == Lower \cup Upper \cup {"_", ":"}
NameChar == NameStrt \cup Digit \cup {".", "-"}

At(s, p) == IF p >= 1 /\ p <= Len(s) THEN s[p] ELSE ""
IsIn(s, p, C) == p >= 1 /\ p <= Len(s) /\ s[p] \in C
NotIn(s, p, C) == p >= 1 /\ p <= Len(s) /\ s[p] \notin C

\* C* at p (greedy): the position after the longest run of characters of C
SkipIn(s, p, C) ==
    CHOOSE q \in p..(Len(s) + 1) :
        /\ \A k \in p..(q - 1) : s[k] \in C
        /\ (q = Len(s) + 1 \/ s[q] \notin C)

\* [^C]* at p (greedy)
SkipNotIn(s, p, C) ==
    CHOOSE q \in p..(Len(s) + 1) :
        /\ \A k \in p..(q - 1) : s[k] \notin C
        /\ (q = Len(s) + 1 \/ s[q] \in C)

\* c? at p
Opt(s, p, c) == IF At(s, p) = c THEN p + 1 ELSE p

\* a literal at p
Lit(s, p, w) ==
    IF p + Len(w) - 1 <= Len(s) /\ \A k \in 1..Len(w) : s[p + k - 1] = w[k]
    THEN p + Len(w) ELSE 0

\* s[i:j] of Python, for 0 <= i
Slice(s, i, j) == SubSeq(s, i + 1, IF j > Len(s) THEN Len(s) ELSE j)

RECURSIVE Concat(_)
Concat(ss) == IF ss = <<>> THEN <<>> ELSE Head(ss) \o Concat(Tail(ss))

\* str.lstrip(), str.rstrip(), str.strip()
LStrip(s) == SubSeq(s, SkipIn(s, 1, PyWs), Len(s))
RStrip(s) ==
    LET e == CHOOSE q \in 0..Len(s) :
                 /\ \A k \in (q + 1)..Len(s) : s[k] \in PyWs
                 /\ (q = 0 \/ s[q] \notin PyWs)
    IN SubSeq(s, 1, e)
Strip(s) == RStrip(LStrip(s))

-----------------------------------------------------------------------------
(* rex.py: the pieces of the shallow parsing expression *)

\* LET x == v IN F(x), for a value used more than once
Let(v, F(_)) == F(v)

\* the scanner F after a scanner that ended at a: no match when that one
\* did not match
Then(a, F(_)) == IF a = 0 THEN 0 ELSE F(a)

\* X? for a scanner result a of X at p
OrStay(a, p) == IF a = 0 THEN p ELSE a

\* the character c at p, or no match
Char(s, p, c) == IF At(s, p) = c THEN p + 1 ELSE 0

\* TextSE = "[^<]+"
TextSE(s, p) == IF NotIn(s, p, {"<"}) THEN SkipNotIn(s, p, {"<"}) ELSE 0

\* UntilHyphen = "[^-]*-"
UntilHyphen(s, p) == Char(s, SkipNotIn(s, p, {"-"}), "-")

\* the loop (?:[^-] UntilHyphen)* of Until2Hyphens
RECURSIVE U2HLoop(_, _)
U2HLoop(s, p) ==
    IF NotIn(s, p, {"-"})
    THEN Let(UntilHyphen(s, p + 1),
             LAMBDA r : IF r = 0 THEN p ELSE U2HLoop(s, r))
    ELSE p

\* Until2Hyphens = UntilHyphen + "(?:[^-]" + UntilHyphen + ")*-"
Until2Hyphens(s, p) ==
    Then(UntilHyphen(s, p), LAMBDA a : Char(s, U2HLoop(s, a), "-"))

\* CommentCE = Until2Hyphens + ">?"
CommentCE(s, p) == Then(Until2Hyphens(s, p), LAMBDA a : Opt(s, a, ">"))

\* the loop (?:[^\]]+])* of UntilRSBs
RECURSIVE RSBLoop(_, _)
RSBLoop(s, p) ==
    IF NotIn(s, p, {"]"})
    THEN Let(SkipNotIn(s, p, {"]"}),
             LAMBDA r : IF At(s, r) = "]" THEN RSBLoop(s, r + 1) ELSE p)
    ELSE p

\* UntilRSBs = "[^\]]*](?:[^\]]+])*]+"
UntilRSBs(s, p) ==
    Then(Char(s, SkipNotIn(s, p, {"]"}), "]"),
         LAMBDA a : Let(RSBLoop(s, a),
                        LAMBDA b : IF At(s, b) = "]" THEN SkipIn(s, b, {"]"}) ELSE 0))

\* the loop (?:[^\]>] UntilRSBs)* of CDATA_CE
RECURSIVE CDATALoop(_, _)
CDATALoop(s, p) ==
    IF NotIn(s, p, {"]", ">"})
    THEN Let(UntilRSBs(s, p + 1),
             LAMBDA r : IF r = 0 THEN p ELSE CDATALoop(s, r))
    ELSE p

\* CDATA_CE = UntilRSBs + "(?:[^\]>]" + UntilRSBs + ")*>"
CDATA_CE(s, p) ==
    Then(UntilRSBs(s, p), LAMBDA a : Char(s, CDATALoop(s, a), ">"))

\* S = "[ \n\t\r]+"
S(s, p) == IF IsIn(s, p, SChars) THEN SkipIn(s, p, SChars) ELSE 0

\* (?:S)?
OptS(s, p) == SkipIn(s, p, SChars)

\* Name = "(?:NameStrt)(?:NameChar)*"
Name(s, p) == IF IsIn(s, p, NameStrt) THEN SkipIn(s, p + 1, NameChar) ELSE 0

\* "d[^xd]*d" for a delimiter d and excluded characters x
Quoted(s, p, d, x) ==
    Then(Char(s, p, d), LAMBDA a : Char(s, SkipNotIn(s, a, x \cup {d}), d))

\* QuoteSE = "\"[^\"]*\"|'[^']*'"
QuoteSE(s, p) == Quoted(s, p, IF At(s, p) = DQ THEN DQ ELSE SQ, {})

\* AttValSE = "\"[^<\"]*\"|'[^<']*'"
AttValSE(s, p) == Quoted(s, p, IF At(s, p) = DQ THEN DQ ELSE SQ, {"<"})

\* (?:Name|QuoteSE)
NameOrQuoteSE(s, p) == IF IsIn(s, p, NameStrt) THEN Name(s, p) ELSE QuoteSE(s, p)

\* the loop (?:S(?:Name|QuoteSE))* of DT_IdentSE
RECURSIVE DTIdentLoop(_, _)
DTIdentLoop(s, p) ==
    Let(Then(S(s, p), LAMBDA a : NameOrQuoteSE(s, a)),
        LAMBDA r : IF r = 0 THEN p ELSE DTIdentLoop(s, r))

\* DT_IdentSE = S + Name + "(?:" + S + "(?:" + Name + "|" + QuoteSE + "))*"
DT_IdentSE(s, p) ==
    Then(S(s, p), LAMBDA a : Then(Name(s, a), LAMBDA b : DTIdentLoop(s, b)))

\* the loop (?:[^\]"'><]+|QuoteSE)* of MarkupDeclCE
RECURSIVE MarkupDeclLoop(_, _)
MarkupDeclLoop(s, p) ==
    IF NotIn(s, p, {"]", DQ, SQ, ">", "<"})
    THEN MarkupDeclLoop(s, SkipNotIn(s, p, {"]", DQ, SQ, ">", "<"}))
    ELSE Let(QuoteSE(s, p), LAMBDA q : IF q = 0 THEN p ELSE MarkupDeclLoop(s, q))

\* MarkupDeclCE = "(?:[^\]\"'><]+|" + QuoteSE + ")*>"
MarkupDeclCE(s, p) == Char(s, MarkupDeclLoop(s, p), ">")

\* UntilQMs = "[^?]*\?+"
UntilQMs(s, p) ==
    Then(Char(s, SkipNotIn(s, p, {"?"}), "?"), LAMBDA a : SkipIn(s, a, {"?"}))

\* the loop (?:[^>?] UntilQMs)* of PI_Tail
RECURSIVE PITailLoop(_, _)
PITailLoop(s, p) ==
    IF NotIn(s, p, {">", "?"})
    THEN Let(UntilQMs(s, p + 1), LAMBDA r : IF r = 0 THEN p ELSE PITailLoop(s, r))
    ELSE p

\* PI_Tail = "\?>|" + S1 + UntilQMs + "(?:[^>?]" + UntilQMs + ")*>"
PI_Tail(s, p) ==
    IF Lit(s, p, <<"?", ">">>) # 0 THEN p + 2
    ELSE IF ~IsIn(s, p, SChars) THEN 0
    ELSE Then(UntilQMs(s, p + 1), LAMBDA a : Char(s, PITailLoop(s, a), ">"))

\* DT_ItemSE = "<(?:!(?:--Until2Hyphens>|[^-]MarkupDeclCE)|\?Name(?:PI_Tail))
\*              |%Name;|S"
DT_ItemSE(s, p) ==
    IF At(s, p) = "<" THEN
        IF At(s, p + 1) = "!" THEN
            IF Lit(s, p + 2, <<"-", "-">>) # 0
            THEN Then(Until2Hyphens(s, p + 4), LAMBDA a : Char(s, a, ">"))
            ELSE IF NotIn(s, p + 2, {"-"}) THEN MarkupDeclCE(s, p + 3)
            ELSE 0
        ELSE IF At(s, p + 1) = "?"
        THEN Then(Name(s, p + 2), LAMBDA n : PI_Tail(s, n))
        ELSE 0
    ELSE IF At(s, p) = "%"
    THEN Then(Name(s, p + 1), LAMBDA n : Char(s, n, ";"))
    ELSE S(s, p)

\* the loop (?:DT_ItemSE)* of DocTypeCE
RECURSIVE DTItemLoop(_, _)
DTItemLoop(s, p) ==
    Let(DT_ItemSE(s, p), LAMBDA a : IF a = 0 THEN p ELSE DTItemLoop(s, a))

\* (?:\[(?:DT_ItemSE)*](?:S)?)? of DocTypeCE
OptSubset(s, p) ==
    OrStay(Then(Char(s, p, "["),
                LAMBDA a : Then(Char(s, DTItemLoop(s, a), "]"),
                                LAMBDA c : OptS(s, c))),
           p)

\* DocTypeCE = DT_IdentSE + "(?:S)?(?:\[(?:DT_ItemSE)*](?:S)?)?>?"
DocTypeCE(s, p) ==
    Then(DT_IdentSE(s, p), LAMBDA a : Opt(s, OptSubset(s, OptS(s, a)), ">"))

\* DeclCE = "--(?:CommentCE)?|\[CDATA\[(?:CDATA_CE)?|DOCTYPE(?:DocTypeCE)?"
DeclCE(s, p) ==
    IF Lit(s, p, <<"-", "-">>) # 0
    THEN OrStay(CommentCE(s, p + 2), p + 2)
    ELSE IF Lit(s, p, <<"[", "C", "D", "A", "T", "A", "[">>) # 0
    THEN OrStay(CDATA_CE(s, p + 7), p + 7)
    ELSE IF Lit(s, p, <<"D", "O", "C", "T", "Y", "P", "E">>) # 0
    THEN OrStay(DocTypeCE(s, p + 7), p + 7)
    ELSE 0

\* PI_CE = Name + "(?:" + PI_Tail + ")?"
PI_CE(s, p) == Then(Name(s, p), LAMBDA n : OrStay(PI_Tail(s, n), n))

\* EndTagCE = Name + "(?:" + S + ")?>?"
EndTagCE(s, p) == Then(Name(s, p), LAMBDA n : Opt(s, OptS(s, n), ">"))

\* one attribute: S Name (?:S)? = (?:S)? AttValSE
Att(s, p) ==
    Then(S(s, p),
         LAMBDA a : Then(Name(s, a),
                         LAMBDA b : Then(Char(s, OptS(s, b), "="),
                                         LAMBDA c : AttValSE(s, OptS(s, c)))))

\* the loop (?: S Name (?:S)?=(?:S)? AttValSE)* of ElemTagCE and ElemTagRE
RECURSIVE AttLoop(_, _)
AttLoop(s, p) == Let(Att(s, p), LAMBDA a : IF a = 0 THEN p ELSE AttLoop(s, a))

\* ElemTagCE without its "(?:S)?"
ElemTagCE_NoS(s, p) ==
    Then(Name(s, p), LAMBDA n : Opt(s, Opt(s, AttLoop(s, n), "/"), ">"))

\* ElemTagCE = Name + "(?:S Name(?:S)?=(?:S)?(?:AttValSE))*(?:S)?/?>?"
ElemTagCE(s, p) ==
    Then(Name(s, p),
         LAMBDA n : Opt(s, Opt(s, OptS(s, AttLoop(s, n)), "/"), ">"))

\* MarkupSPE = "<(?:!(?:DeclCE)?|\?(?:PI_CE)?|/(?:EndTagCE)?|(?:ElemTagCE)?)"
MarkupSPE(s, p) ==
    IF At(s, p) # "<" THEN 0
    ELSE IF At(s, p + 1) = "!" THEN OrStay(DeclCE(s, p + 2), p + 2)
    ELSE IF At(s, p + 1) = "?" THEN OrStay(PI_CE(s, p + 2), p + 2)
    ELSE IF At(s, p + 1) = "/" THEN OrStay(EndTagCE(s, p + 2), p + 2)
    ELSE OrStay(ElemTagCE(s, p + 1), p + 1)

\* XML_SPE = TextSE + "|" + MarkupSPE
XML_SPE(s, p) == IF NotIn(s, p, {"<"}) THEN TextSE(s, p) ELSE MarkupSPE(s, p)

-----------------------------------------------------------------------------
(* tokens.py: AttributeDict, an OrderedDict, as a sequence of <<name, value>> *)

Keys(d) == [i \in 1..Len(d) |-> d[i][1]]
HasKey(d, k) == \E i \in 1..Len(d) : d[i][1] = k
IndexOf(d, k) == CHOOSE i \in 1..Len(d) : d[i][1] = k

\* a __setitem__ that moves an old key to the end
DictSet_MoveToEnd(d, k, v) ==
    SelectSeq(d, LAMBDA x : x[1] # k) \o <<<<k, v>>>>

\* OrderedDict.__setitem__: a new key goes last, an old key keeps its place
DictSet(d, k, v) ==
    IF HasKey(d, k)
    THEN [i \in 1..Len(d) |-> IF d[i][1] = k THEN <<k, v>> ELSE d[i]]
    ELSE Append(d, <<k, v>>)

\* OrderedDict.__delitem__ of a key that is present
DictDel(d, k) ==
    LET i == IndexOf(d, k) IN SubSeq(d, 1, i - 1) \o SubSeq(d, i + 1, Len(d))

\* a Python value that may be None
None == [isNone |-> TRUE, val |-> <<>>]
Some(v) == [isNone |-> FALSE, val |-> v]

\* dict.get(key): None for a missing key (get never calls __missing__)
DictGet(d, k) == IF HasKey(d, k) THEN Some(d[IndexOf(d, k)][2]) ELSE None

\* AttributeDict.__getitem__ with __missing__: '' for a missing key
DictItem(d, k) == IF HasKey(d, k) THEN d[IndexOf(d, k)][2] ELSE <<>>

\* attribute_value.replace('"', '&quot;')
RECURSIVE EscapeQuot(_)
EscapeQuot(v) ==
    IF v = <<>> THEN <<>>
    ELSE (IF Head(v) = DQ THEN <<"&", "q", "u", "o", "t", ";">> ELSE <<Head(v)>>)
         \o EscapeQuot(Tail(v))

\* AttributeDict.to_xml
RECURSIVE to_xml(_)
to_xml(d) ==
    IF d = <<>> THEN <<>>
    ELSE <<" ">> \o Head(d)[1] \o <<"=", DQ>> \o EscapeQuot(Head(d)[2]) \o <<DQ>>
         \o to_xml(Tail(d))

-----------------------------------------------------------------------------
(* tokens.py: the token classes.  One record shape serves every class; a   *)
(* field a class does not have stays empty.  parsed is                      *)
(* "_pseudoattributes is not None"; spans is the spans dict of the         *)
(* pseudo-attribute store, a set of <<name, i, j>>.                         *)

Token(kind, xml) ==
    [kind |-> kind, xml |-> xml, name |-> <<>>, attributes |-> <<>>,
     content |-> <<>>, target |-> <<>>, instruction |-> <<>>,
     parsed |-> FALSE, pseudoattributes |-> <<>>, spans |-> {},
     document_element |-> <<>>, id_type |-> <<>>, id_value |-> <<>>,
     internal_subset |-> <<>>, span |-> <<>>]

TagKinds == {"Start", "Empty", "End"}
PIKinds == {"PI", "XmlDecl"}

\* PI.space
space(t) == IF LStrip(t.instruction) # <<>> THEN <<" ">> ELSE <<>>

\* Doctype.reserialize: ' '.join(l)
DoctypeJoin(t) ==
    t.document_element
    \o (IF t.id_type # <<>> THEN <<" ">> \o t.id_type ELSE <<>>)
    \o (IF t.id_value # <<>> THEN <<" ", DQ>> \o t.id_value \o <<DQ>> ELSE <<>>)
    \o (IF t.internal_subset # <<>>
        THEN <<" ", "[">> \o t.internal_subset \o <<"]">> ELSE <<>>)

\* the template of each class, formatted with the token
Template(t) ==
    CASE t.kind = "Start" -> <<"<">> \o t.name \o to_xml(t.attributes) \o <<">">>
      [] t.kind = "Empty" ->
            <<"<">> \o t.name \o to_xml(t.attributes) \o <<"/", ">">>
      [] t.kind = "End" -> <<"<", "/">> \o t.name \o <<">">>
      [] t.kind = "Comment" ->
            <<"<", "!", "-", "-">> \o t.content \o <<"-", "-", ">">>
      [] t.kind = "Cdata" ->
            <<"<", "!", "[", "C", "D", "A", "T", "A", "[">> \o t.content
            \o <<"]", "]", ">">>
      [] t.kind \in PIKinds ->
            <<"<", "?">> \o t.target \o space(t) \o t.instruction \o <<"?", ">">>
      [] t.kind = "Doctype" ->
            <<"<", "!", "D", "O", "C", "T", "Y", "P", "E", " ">> \o DoctypeJoin(t)
            \o <<">">>
      [] OTHER -> t.xml

\* PI.reserialize strips the instruction first
LStripInstruction(t) ==
    IF t.kind \in PIKinds
    THEN [t EXCEPT !.instruction = LStrip(t.instruction)] ELSE t

\* reserialize of each class; Error.reserialize is pass
reserialize(t) ==
    IF t.kind \in {"Error", "Text"} THEN t
    ELSE Let(LStripInstruction(t), LAMBDA u : [u EXCEPT !.xml = Template(u)])

-----------------------------------------------------------------------------
(* rex.py: ElemTagRE and AttRE, the expressions of the secondary parsing *)

\* ElemTagRE at p: "<(Name)((?:S Name(?:S)?=(?:S)?(?:AttValSE))*)(S)?/?>"
ElemTagRE(s, p) ==
    Then(Char(s, p, "<"),
         LAMBDA a : Then(Name(s, a),
                         LAMBDA n : Char(s, Opt(s, OptS(s, AttLoop(s, n)), "/"), ">")))

\* the groups of a match of AttRE that starts at p, with the name from a to
\* b, the value from d to e; i and j are m.span('attribute')
AttGroups(s, p, a, b, d, e) ==
    [attribute_name |-> SubSeq(s, a, b - 1),
     attribute_value |-> SubSeq(s, d, e - 1),
     i |-> p - 1, j |-> e - 1]

\* AttRE = "(?P<attribute>S(?P<attribute_name>Name)(?:S)?=(?:S)?
\*          (?P<attribute_value>AttValSE))", a match at p
AttRE(s, p) ==
    Let(S(s, p),
        LAMBDA a : Let(Name(s, a),
                       LAMBDA b : Let(OptS(s, OptS(s, b) + 1),
                                      LAMBDA d : AttGroups(s, p, a, b, d,
                                                           AttValSE(s, d)))))

\* AttRE_.finditer(s), from position p on
RECURSIVE AttRE_finditer(_, _)
AttRE_finditer(s, p) ==
    IF p > Len(s) THEN <<>>
    ELSE Let(Att(s, p),
             LAMBDA e : IF e = 0 THEN AttRE_finditer(s, p + 1)
                        ELSE <<AttRE(s, p)>> \o AttRE_finditer(s, e))

\* m.group('attribute_value')[1:-1]
Undelimited(v) == SubSeq(v, 2, Len(v) - 1)

-----------------------------------------------------------------------------
(* tokens.py: construction of Start, Empty and End *)

\* AttributeDict.__setitem__ on the attributes of a Start or Empty token:
\* the store, then token.reserialize()
AttributeDict_setitem(t, k, v) ==
    reserialize([t EXCEPT !.attributes = DictSet(@, k, v)])

\* the loop of StartOrEmpty.__init__ over AttRE_.finditer(attributes)
RECURSIVE InitAttributes(_, _)
InitAttributes(t, ms) ==
    IF ms = <<>> THEN t
    ELSE InitAttributes(
             AttributeDict_setitem(t, Head(ms).attribute_name,
                                   Undelimited(Head(ms).attribute_value)),
             Tail(ms))

\* the least and the greatest of a set of positions
Min(ps) == CHOOSE x \in ps : \A y \in ps : x <= y
Max(ps) == CHOOSE x \in ps : \A y \in ps : y <= x

\* ElemTagRE_.search(xml): where the match starts
ElemTagRE_search(xml) == Min({p \in 1..Len(xml) : ElemTagRE(xml, p) # 0})

\* StartOrEmpty.__init__: ElemTagRE_.search(xml), then one store per attribute
StartOrEmpty(kind, xml) ==
    Let(ElemTagRE_search(xml),
        LAMBDA q :
            Let(Name(xml, q + 1),
                LAMBDA n :
                    InitAttributes(
                        [Token(kind, xml) EXCEPT !.name = SubSeq(xml, q + 1, n - 1)],
                        AttRE_finditer(SubSeq(xml, n, AttLoop(xml, n) - 1), 1))))

\* xml.split('/')[1]
SplitSlash1(xml) ==
    Let(SkipNotIn(xml, 1, {"/"}),
        LAMBDA a : SubSeq(xml, a + 1, SkipNotIn(xml, a + 1, {"/"}) - 1))

\* End.__init__: xml.split('/')[1][:-1].strip()
End(xml) ==
    Let(SplitSlash1(xml),
        LAMBDA seg : [Token("End", xml) EXCEPT
                          !.name = Strip(SubSeq(seg, 1, Len(seg) - 1))])

\* Comment.__init__: xml[4:-3]
Comment(xml) == [Token("Comment", xml) EXCEPT !.content = SubSeq(xml, 5, Len(xml) - 3)]

\* Cdata.__init__: xml[9:-3]
Cdata(xml) == [Token("Cdata", xml) EXCEPT !.content = SubSeq(xml, 10, Len(xml) - 3)]

\* Text.__init__
Text(xml) == Token("Text", xml)

\* Error.__init__ that does not keep the span
Error_NoSpan(xml, span) == Token("Error", xml)

\* Error.__init__: span is m.span(), as <<start, end>>
Error(xml, span) == [Token("Error", xml) EXCEPT !.span = span]

-----------------------------------------------------------------------------
(* tokens.py: processing instructions and their pseudo-attributes *)

\* PI.__init__, from "xml[2:-endslice].lstrip()" on: l is the stripped text,
\* w the end of its first word
PI_split(kind, xml, body, l, w) ==
    Let(LStrip(SubSeq(l, w, Len(l))),
        LAMBDA rest :
            IF rest = <<>>
            THEN \* split(None, 1) gives fewer than two parts: ValueError
                 [Token(kind, xml) EXCEPT !.target = Strip(body)]
            ELSE [Token(kind, xml) EXCEPT !.target = Strip(SubSeq(l, 1, w - 1)),
                                          !.instruction = Strip(rest)])

\* PI.__init__
PI(kind, xml) ==
    Let(SubSeq(xml, 3,
               Len(xml) - (IF Len(xml) >= 2
                              /\ SubSeq(xml, Len(xml) - 1, Len(xml)) = <<"?", ">">>
                           THEN 2 ELSE 1)),
        LAMBDA body :
            Let(LStrip(body),
                LAMBDA l : PI_split(kind, xml, body, l, SkipNotIn(l, 1, PyWs))))

\* AttributeDict.__setitem__ on the pseudo-attributes of a PI
Pseudo_setitem(t, k, v) ==
    reserialize([t EXCEPT !.pseudoattributes = DictSet(@, k, v)])

\* spans[attribute_name] = ...
SpanSet(spans, k, i, j) == {x \in spans : x[1] # k} \cup {<<k, i, j>>}
HasSpan(spans, k) == \E x \in spans : x[1] = k
SpanOf(spans, k) == CHOOSE x \in spans : x[1] = k

\* the loop of PI._locate_pseudoattributes over the matches found
RECURSIVE LocateLoop(_, _)
LocateLoop(t, ms) ==
    IF ms = <<>> THEN t
    ELSE LET m == Head(ms)
             u == Pseudo_setitem(t, m.attribute_name, Undelimited(m.attribute_value))
         IN LocateLoop(
                [u EXCEPT !.spans =
                     SpanSet(@, m.attribute_name,
                             IF m.i - 1 < 0 THEN 0 ELSE m.i - 1, m.j - 1)],
                Tail(ms))

\* "if pseudoattributes: pseudoattributes.clear(); spans.clear()"
ClearIfAny(t) ==
    IF t.pseudoattributes # <<>>
    THEN [t EXCEPT !.pseudoattributes = <<>>, !.spans = {}] ELSE t

\* PI._locate_pseudoattributes: the matches are those of the instruction as
\* it is when the loop starts
PI_locate_pseudoattributes(t) ==
    LocateLoop(ClearIfAny(t), AttRE_finditer(<<" ">> \o t.instruction, 1))

\* PI._parse_pseudoattributes
PI_parse_pseudoattributes(t) ==
    PI_locate_pseudoattributes(
        [t EXCEPT !.parsed = TRUE, !.pseudoattributes = <<>>, !.spans = {}])

\* "if not self._pseudoattributes: self._parse_pseudoattributes()"
ParseIfNot(t) ==
    IF ~t.parsed \/ t.pseudoattributes = <<>>
    THEN PI_parse_pseudoattributes(t) ELSE t

\* PI.__getitem__: the token afterwards, and the value returned
PI_getitem(t, k) == ParseIfNot(t)
PI_getitem_value(t, k) == DictGet(ParseIfNot(t).pseudoattributes, k)

\* ' {attribute_name}="{value}"'
PseudoText(k, v) == <<" ">> \o k \o <<"=", DQ>> \o v \o <<DQ>>

\* "l = list(instruction); l[i:j] = text", for the span sp = <<name, i, j>>
SpliceSpan(l, sp, text) ==
    Slice(l, 0, sp[2]) \o text
    \o SubSeq(l, (IF sp[3] < sp[2] THEN sp[2] ELSE sp[3]) + 1, Len(l))

\* PI.__setitem__, from "span = self._pseudoattributes.spans.get(...)" to the
\* new instruction
PI_setitem_instruction(t, k, v) ==
    IF HasSpan(t.spans, k)
    THEN [t EXCEPT !.instruction = SpliceSpan(@, SpanOf(t.spans, k), PseudoText(k, v))]
    ELSE [t EXCEPT !.instruction = @ \o PseudoText(k, v)]

\* PI.__setitem__
PI_setitem(t, k, v) ==
    reserialize(PI_locate_pseudoattributes(
        PI_setitem_instruction(Pseudo_setitem(ParseIfNot(t), k, v), k, v)))

\* "del self._pseudoattributes[attribute_name]": AttributeDict.__delitem__
Pseudo_delitem(t, k) ==
    IF HasKey(t.pseudoattributes, k)
    THEN reserialize([t EXCEPT !.pseudoattributes = DictDel(@, k)])
    ELSE t

\* PI.__delitem__ raises KeyError at "spans[attribute_name]" when the name
\* has no span; the token is then left as the statements before it made it
PI_delitem_raises(t, k) == ~HasSpan(ParseIfNot(t).spans, k)

\* PI.__delitem__, from "l = list(self._instruction)" to the end
PI_delitem_instruction(t, k) ==
    reserialize(PI_locate_pseudoattributes(
        [t EXCEPT !.instruction = SpliceSpan(@, SpanOf(t.spans, k), <<>>)]))

\* PI.__delitem__
PI_delitem(t, k) ==
    Let(Pseudo_delitem(ParseIfNot(t), k),
        LAMBDA a : IF ~HasSpan(a.spans, k) THEN a ELSE PI_delitem_instruction(a, k))

\* PI.__contains__
PI_contains(t, k) == t.parsed /\ HasKey(t.pseudoattributes, k)

\* XmlDecl.__init__: PI.__init__, then self['encoding']
XmlDecl(xml) == PI_getitem(PI("XmlDecl", xml), <<"e", "n", "c", "o", "d", "i", "n", "g">>)

\* "if encoding: Token.encoding = encoding", for the encoding found and the
\* old value
IfEncoding(e, old) == IF ~e.isNone /\ e.val # <<>> THEN e.val ELSE old

\* the value XmlDecl.__init__ leaves in Token.encoding, given the old one
XmlDeclEncoding(xml, old) ==
    IfEncoding(PI_getitem_value(PI("XmlDecl", xml),
                                <<"e", "n", "c", "o", "d", "i", "n", "g">>), old)

-----------------------------------------------------------------------------
(* tokens.py: doctype_parser_ and Doctype.  The expression is tried the way *)
(* re tries it: a greedy part longest first, the lazy id_value shortest    *)
(* first, an optional group present before absent.                         *)

\* the closing brackets r after w with "\s*>" behind them
SubsetEnds(s, w) ==
    {r \in (w + 1)..Len(s) : s[r] = "]" /\ At(s, SkipIn(s, r + 1, PyWs)) = ">"}

\* "\[(?P<internal_subset>.*)\]\s*>" at w, else ">" at w; rs is
\* SubsetEnds(s, w)
DoctypeTailAt(s, w, rs) ==
    IF At(s, w) = "[" /\ rs # {}
    THEN [ok |-> TRUE, internal_subset |-> SubSeq(s, w + 1, Max(rs) - 1)]
    ELSE [ok |-> At(s, w) = ">", internal_subset |-> <<>>]

\* "(?:\s*\[(?P<internal_subset>.*)\])?\s*>" at p: whether it matches, and
\* the group
DoctypeTail(s, p) ==
    Let(SkipIn(s, p, PyWs), LAMBDA w : DoctypeTailAt(s, w, SubsetEnds(s, w)))

\* the groups of a match of doctype_parser_ after document_element
NoId == [ok |-> FALSE, id_type |-> <<>>, id_value |-> <<>>, internal_subset |-> <<>>]
WithId(tail, id_type, id_value) ==
    [ok |-> tail.ok, id_type |-> id_type, id_value |-> id_value,
     internal_subset |-> tail.internal_subset]

\* the first of two alternatives that matches
FirstOk(x, y) == IF x.ok THEN x ELSE y

\* "(SYSTEM|PUBLIC)" at a
DoctypeIdType(s, a) ==
    Let(Lit(s, a, <<"S", "Y", "S", "T", "E", "M">>),
        LAMBDA sys : IF sys # 0 THEN sys
                     ELSE Lit(s, a, <<"P", "U", "B", "L", "I", "C">>))

\* the closing delimiters k of an id_value opened at c with which the tail
\* matches
IdValueEnds(s, c) ==
    {k \in (c + 1)..Len(s) : s[k] = s[c] /\ DoctypeTail(s, k + 1).ok}

\* "\s+(["'])(.*?)(?P=delim)" and the tail, for the id_type from a to b and
\* the delimiter at c; ks is IdValueEnds(s, c)
DoctypeIdValue(s, a, b, c, ks) ==
    IF c > b /\ IsIn(s, c, {DQ, SQ}) /\ ks # {}
    THEN Let(Min(ks),
             LAMBDA k : WithId(DoctypeTail(s, k + 1), SubSeq(s, a, b - 1),
                               SubSeq(s, c + 1, k - 1)))
    ELSE NoId

\* "\s+(SYSTEM|PUBLIC)" from a to b, then the id_value or not, and the tail
DoctypeId(s, a, b) ==
    FirstOk(Let(SkipIn(s, b, PyWs),
                LAMBDA c : DoctypeIdValue(s, a, b, c, IdValueEnds(s, c))),
            WithId(DoctypeTail(s, b), SubSeq(s, a, b - 1), <<>>))

\* "(?:(?:\s+(SYSTEM|PUBLIC))(?:\s+(["'])(.*?)(?P=delim))?)?" and the tail,
\* at p, the end of document_element
DoctypeRest(s, p) ==
    FirstOk(Let(SkipIn(s, p, PyWs),
                LAMBDA a :
                    Let(DoctypeIdType(s, a),
                        LAMBDA b : IF a > p /\ b # 0 THEN DoctypeId(s, a, b)
                                   ELSE NoId)),
            WithId(DoctypeTail(s, p), <<>>, <<>>))

\* the ends of document_element, "\S+", with which doctype_parser_ matches
\* at p
DoctypeEnds(s, p) ==
    Let(Lit(s, p, <<"<", "!", "D", "O", "C", "T", "Y", "P", "E">>),
        LAMBDA a :
            IF a = 0 THEN {}
            ELSE Let(SkipIn(s, a, PyWs),
                     LAMBDA b :
                         IF b = a THEN {}
                         ELSE {e \in (b + 1)..SkipNotIn(s, b, PyWs) :
                                   DoctypeRest(s, e).ok}))

\* doctype_parser_.search(xml) finds a match
doctype_parser_matches(xml) == \E p \in 1..Len(xml) : DoctypeEnds(xml, p) # {}

\* Doctype.__init__ for the match at p with document_element ending at e and
\* the groups g
DoctypeGroups(xml, p, e, g) ==
    [Token("Doctype", xml) EXCEPT
        !.document_element = SubSeq(xml, SkipIn(xml, p + 9, PyWs), e - 1),
        !.id_type = g.id_type, !.id_value = g.id_value,
        !.internal_subset = g.internal_subset]

\* Doctype.__init__ when the search finds a match; it raises
\* SecondaryParsingError when it finds none
Doctype(xml) ==
    Let(Min({p \in 1..Len(xml) : DoctypeEnds(xml, p) # {}}),
        LAMBDA p :
            Let(Max(DoctypeEnds(xml, p)),
                LAMBDA e : DoctypeGroups(xml, p, e, DoctypeRest(xml, e))))

-----------------------------------------------------------------------------
(* tokens.py: the setters and the attribute operations *)

\* Tag.name (setter) that does not reserialize
Tag_set_name_Stale(t, v) == [t EXCEPT !.name = v]

\* Tag.name (setter)
Tag_set_name(t, v) == reserialize([t EXCEPT !.name = v])

\* Tag.ns_prefix (getter)
Tag_ns_prefix(t) ==
    IF \E i \in 1..Len(t.name) : t.name[i] = ":"
    THEN SubSeq(t.name, 1, SkipNotIn(t.name, 1, {":"}) - 1) ELSE <<>>

\* Tag.ns_prefix (setter), with c the place of the first ':' in the name,
\* past the end when there is none; it reserializes only when the prefix
\* changes
Tag_set_ns_prefix_at(t, prefix, c) ==
    IF (IF c <= Len(t.name) THEN SubSeq(t.name, 1, c - 1) ELSE <<>>) # prefix
    THEN reserialize([t EXCEPT !.name =
             (IF prefix # <<>> THEN prefix \o <<":">> ELSE <<>>)
             \o (IF c <= Len(@) THEN SubSeq(@, c + 1, Len(@)) ELSE @)])
    ELSE t

\* Tag.ns_prefix (setter)
Tag_set_ns_prefix(t, prefix) ==
    Tag_set_ns_prefix_at(t, prefix, SkipNotIn(t.name, 1, {":"}))

\* StartOrEmpty.__getitem__: self.attributes.get(attribute_name)
StartOrEmpty_getitem(t, k) == DictGet(t.attributes, k)

\* StartOrEmpty.__setitem__
StartOrEmpty_setitem(t, k, v) == AttributeDict_setitem(t, k, v)

\* AttributeDict.__delitem__ on the attributes of a Start or Empty token
AttributeDict_delitem(t, k) ==
    IF HasKey(t.attributes, k)
    THEN reserialize([t EXCEPT !.attributes = DictDel(@, k)])
    ELSE t

\* StartOrEmpty.__delitem__
StartOrEmpty_delitem(t, k) == AttributeDict_delitem(t, k)

\* StartOrEmpty.delete_attribute
delete_attribute(t, k) ==
    IF HasKey(t.attributes, k) THEN AttributeDict_delitem(t, k) ELSE t

\* str.lower on one character, and the code point order of name characters
LowerSeq == <<"a","b","c","d","e","f","g","h","i","j","k","l","m",
              "n","o","p","q","r","s","t","u","v","w","x","y","z">>
UpperSeq == <<"A","B","C","D","E","F","G","H","I","J","K","L","M",
              "N","O","P","Q","R","S","T","U","V","W","X","Y","Z">>
CodeOrder == <<"-", ".", "0","1","2","3","4","5","6","7","8","9", ":">>
             \o UpperSeq \o <<"_">> \o LowerSeq
Ord(c) == CHOOSE i \in 1..Len(CodeOrder) : CodeOrder[i] = c
LowerChar(c) ==
    IF c \in Upper THEN LowerSeq[CHOOSE i \in 1..26 : UpperSeq[i] = c] ELSE c
lower(w) == [i \in 1..Len(w) |-> LowerChar(w[i])]

\* a < b for strings, as Python compares them
RECURSIVE StrLess(_, _)
StrLess(a, b) ==
    IF b = <<>> THEN FALSE
    ELSE IF a = <<>> THEN TRUE
    ELSE IF Head(a) # Head(b) THEN Ord(Head(a)) < Ord(Head(b))
    ELSE StrLess(Tail(a), Tail(b))

\* the same with the keys compared as they are, not lowered
Insort_CaseSensitive(r, k) ==
    Let(Cardinality({i \in 1..Len(r) : ~StrLess(k, r[i])}),
        LAMBDA n : SubSeq(r, 1, n) \o <<k>> \o SubSeq(r, n + 1, Len(r)))

\* k put into the sorted r, after the keys that are not greater
Insort(r, k) ==
    Let(Cardinality({i \in 1..Len(r) : ~StrLess(lower(k), lower(r[i]))}),
        LAMBDA n : SubSeq(r, 1, n) \o <<k>> \o SubSeq(r, n + 1, Len(r)))

\* sorted(d, key=str.lower): a stable sort of the keys
RECURSIVE SortedNoCase(_)
SortedNoCase(ks) ==
    IF ks = <<>> THEN <<>>
    ELSE Insort(SortedNoCase(SubSeq(ks, 1, Len(ks) - 1)), ks[Len(ks)])

\* the first loop of AttributeDict.set_attribute_order: self is the new
\* dict, d what is left of the old one
RECURSIVE OrderLoop(_, _, _)
OrderLoop(self, d, attribute_order) ==
    IF attribute_order = <<>> THEN [self |-> self, d |-> d]
    ELSE LET k == Head(attribute_order) IN
         IF HasKey(d, k)
         THEN OrderLoop(DictSet(self, k, DictItem(d, k)), DictDel(d, k),
                        Tail(attribute_order))
         ELSE OrderLoop(self, d, Tail(attribute_order))

\* "for key in ...: self[key] = d[key]"
RECURSIVE CopyKeys(_, _, _)
CopyKeys(self, d, ks) ==
    IF ks = <<>> THEN self
    ELSE CopyKeys(DictSet(self, Head(ks), DictItem(d, Head(ks))), d, Tail(ks))

\* the second part of AttributeDict.set_attribute_order: the keys left in d
\* go after those of self, sorted or as they are
OrderRest(r, sort) ==
    CopyKeys(r.self, r.d,
             IF sort /\ r.d # <<>> THEN SortedNoCase(Keys(r.d)) ELSE Keys(r.d))

\* AttributeDict.set_attribute_order, the dict it leaves
AttributeDict_set_attribute_order(d0, attribute_order, sort) ==
    OrderRest(OrderLoop(<<>>, d0, attribute_order), sort)

\* StartOrEmpty.set_attribute_order; the last statement reserializes
set_attribute_order(t, attribute_order, sort) ==
    reserialize([t EXCEPT !.attributes =
        AttributeDict_set_attribute_order(@, attribute_order, sort)])

\* Comment.content and Cdata.content (setters)
set_content(t, v) == reserialize([t EXCEPT !.content = v])

\* PI.target (setter)
PI_set_target(t, v) == reserialize([t EXCEPT !.target = v])

\* the setter without "self._pseudoattributes = None"
PI_set_instruction_KeepCache(t, v) == reserialize([t EXCEPT !.instruction = v])

\* PI.instruction (setter): it drops the pseudo-attribute store
PI_set_instruction(t, v) ==
    reserialize([t EXCEPT !.instruction = v, !.parsed = FALSE,
                          !.pseudoattributes = <<>>, !.spans = {}])

\* the Doctype setters
Doctype_set_document_element(t, v) == reserialize([t EXCEPT !.document_element = v])
Doctype_set_id_type(t, v) == reserialize([t EXCEPT !.id_type = v])
Doctype_set_id_value(t, v) == reserialize([t EXCEPT !.id_value = v])
Doctype_set_internal_subset(t, v) == reserialize([t EXCEPT !.internal_subset = v])

-----------------------------------------------------------------------------
(* tokens.py: tokenize *)

\* xml.startswith(w)
StartsWith(xml, w) == Lit(xml, 1, w) = 1 + Len(w)

\* the class tokenize picks for a match that ends with '>'; "none" when no
\* branch yields
MarkupClass(xml) ==
    LET c == xml[2] IN
    IF c \notin {"/", "!", "?"}
    THEN IF xml[Len(xml) - 1] = "/" THEN "Empty" ELSE "Start"
    ELSE IF c = "/" THEN "End"
    ELSE IF c = "!"
    THEN IF StartsWith(xml, <<"<", "!", "-", "-">>) THEN "Comment"
         ELSE IF xml[3] = "[" THEN "Cdata"
         ELSE IF StartsWith(xml, <<"<", "!", "D", "O", "C", "T", "Y", "P", "E">>)
         THEN "Doctype"
         ELSE "none"
    ELSE IF StartsWith(xml, <<"<", "?", "x", "m", "l", " ">>) THEN "XmlDecl"
    ELSE "PI"

\* the token a class builds from xml
Construct(kind, xml) ==
    CASE kind \in {"Start", "Empty"} -> StartOrEmpty(kind, xml)
      [] kind = "End" -> End(xml)
      [] kind = "Comment" -> Comment(xml)
      [] kind = "Cdata" -> Cdata(xml)
      [] kind = "Doctype" -> Doctype(xml)
      [] kind = "XmlDecl" -> XmlDecl(xml)
      [] kind = "PI" -> PI("PI", xml)
      [] kind = "Text" -> Text(xml)


\* SPE_.finditer(input) from p on: m.span() of each match, as <<start, end>>
RECURSIVE XML_SPE_finditer(_, _)
XML_SPE_finditer(s, p) ==
    IF p > Len(s) THEN <<>>
    ELSE Let(XML_SPE(s, p),
             LAMBDA e : <<<<p - 1, e - 1>>>> \o XML_SPE_finditer(s, e))

\* the token under mutation while tokenize runs: there is none
NoToken == Token("none", <<>>)

\* an operation on tok: the method, its arguments and the value it returned.
\* before is kept for "del pi[k]", the token it was applied to, and for a
\* "pi[k] = v" that comes right after a "del pi[k]" that returned, the token
\* that delete was applied to.
Op(op, key, val, sort, ret, before) ==
    [op |-> op, key |-> key, val |-> val, sort |-> sort, ret |-> ret,
     before |-> before]
NoOp == Op("none", <<>>, <<>>, FALSE, None, NoToken)
FilterFrame ==
    UNCHANGED <<filter, keep_minimized, consumed, stack, yielded, contexts, message>>
TokenFrame == UNCHANGED <<tok, last, raised, inserted>> /\ FilterFrame

\* sys.getdefaultencoding(), the first value of Token.encoding
DefaultEncoding == <<"u", "t", "f", "-", "8">>

-----------------------------------------------------------------------------
(* The tokenizer's input: up to MaxItems pieces of markup and text, whole  *)
(* and cut short, one after the other.                                     *)

MaxItems == 2

Items ==
    {
     <<"t">>,
     <<" ">>,
     <<">">>,
     <<"<","a",">">>,
     <<"<","a"," ",">">>,
     <<"<","a"," ","b","=",DQ,"1",DQ,">">>,
     <<"<","a"," ","b","=",SQ,"1",SQ,"/",">">>,
     <<"<","a"," ","b","=",DQ,"1">>,
     <<"<","a">>,
     <<"<","/","a",">">>,
     <<"<","/","a"," ",">">>,
     <<"<","/","a">>,
     <<"<">>,
     <<"<","!","-","-","c","-","-",">">>,
     <<"<","!","-","-","c","-","-">>,
     <<"<","?","p"," ","x","?",">">>,
     <<"<","?","p">>,
     <<"<","?","x","m","l"," ","e","n","c","o","d","i","n","g","=",DQ,"u",DQ," ","?",">">>,
     <<"<","!","[","C","D","A","T","A","[","]","x","]","]",">">>,
     <<"<","!","[","C","D","A","T","A","[">>,
     <<"<","!","D","O","C","T","Y","P","E"," ","a",">">>,
     <<"<","!","D","O","C","T","Y","P","E"," ","a"," ","b",">">>,
     <<"<","!","D","O","C","T","Y","P","E"," ","a"," ","[","<","!","E"," ",DQ,">",DQ,">","]",">">>,
     <<"<","!","D","O","C","T","Y","P","E"," ","a"," ","[">>
    }

Inputs == {Concat(q) : q \in UNION {[1..n -> Items] : n \in 1..MaxItems}}

\* no filter runs
NoFilter ==
    /\ filter = "none" /\ keep_minimized = {} /\ consumed = 0
    /\ stack = <<>> /\ yielded = <<>> /\ contexts = <<>> /\ message = <<>>

Init ==
    /\ input \in Inputs
    /\ pos = 1
    /\ tokens = <<>>
    /\ mspans = <<>>
    /\ pc = "scan"
    /\ encoding = DefaultEncoding
    /\ tok = NoToken
    /\ last = NoOp
    /\ raised = "none"
    /\ inserted = <<>>
    /\ NoFilter

\* "if xml[0] != '<': yield Text(xml)", for the match from pos to e
YieldText ==
    /\ pc = "scan" /\ pos <= Len(input)
    /\ \E e \in {XML_SPE(input, pos)} : \E xml \in {SubSeq(input, pos, e - 1)} :
        /\ xml[1] # "<"
        /\ tokens' = Append(tokens, Text(xml))
        /\ mspans' = Append(mspans, <<pos - 1, e - 1>>)
        /\ pos' = e
    /\ UNCHANGED <<input, pc, encoding>>
    /\ TokenFrame

\* "if xml[-1] == '>':" the token of the class the prefix selects; XmlDecl
\* also overwrites Token.encoding
YieldMarkup ==
    /\ pc = "scan" /\ pos <= Len(input)
    /\ \E e \in {XML_SPE(input, pos)} : \E xml \in {SubSeq(input, pos, e - 1)} :
        /\ xml[1] = "<" /\ xml[Len(xml)] = ">"
        /\ \E kind \in {MarkupClass(xml)} :
            /\ kind = "Doctype" => doctype_parser_matches(xml)
            /\ tokens' = IF kind = "none" THEN tokens
                         ELSE Append(tokens, Construct(kind, xml))
            /\ mspans' = IF kind = "none" THEN mspans
                         ELSE Append(mspans, <<pos - 1, e - 1>>)
            /\ encoding' = IF kind = "XmlDecl"
                           THEN XmlDeclEncoding(xml, encoding) ELSE encoding
        /\ pos' = e
    /\ UNCHANGED <<input, pc>>
    /\ TokenFrame

\* Doctype.__init__ raises SecondaryParsingError out of the generator
RaiseSecondaryParsingError ==
    /\ pc = "scan" /\ pos <= Len(input)
    /\ \E e \in {XML_SPE(input, pos)} : \E xml \in {SubSeq(input, pos, e - 1)} :
        /\ xml[1] = "<" /\ xml[Len(xml)] = ">"
        /\ MarkupClass(xml) = "Doctype" /\ ~doctype_parser_matches(xml)
    /\ pc' = "raised"
    /\ UNCHANGED <<input, pos, tokens, mspans, encoding>>
    /\ TokenFrame

\* "else: yield Error(xml, span=m.span())"; the text written to error_stream
\* is a function of the match and is not kept
YieldError ==
    /\ pc = "scan" /\ pos <= Len(input)
    /\ \E e \in {XML_SPE(input, pos)} : \E xml \in {SubSeq(input, pos, e - 1)} :
        /\ xml[1] = "<" /\ xml[Len(xml)] # ">"
        /\ tokens' = Append(tokens, Error(xml, <<pos - 1, e - 1>>))
        /\ mspans' = Append(mspans, <<pos - 1, e - 1>>)
        /\ pos' = e
    /\ UNCHANGED <<input, pc, encoding>>
    /\ TokenFrame

\* finditer is exhausted: the generator returns
StopIteration ==
    /\ pc = "scan" /\ pos > Len(input)
    /\ pc' = "done"
    /\ UNCHANGED <<input, pos, tokens, mspans, encoding>>
    /\ TokenFrame

Next ==
    \/ YieldText
    \/ YieldMarkup
    \/ RaiseSecondaryParsingError
    \/ YieldError
    \/ StopIteration

Spec == Init /\ [][Next]_vars

-----------------------------------------------------------------------------
(* A token built from literal text, and the calls a caller makes on it.    *)

MaxGrowth == 1

TokenLiterals ==
    {
     <<"<","a"," ",">">>,
     <<"<","p",":","a"," ","a","=",DQ,"1",DQ," ","B","=",SQ,"2",SQ,">">>,
     <<"<","a"," ","b","=",SQ,"1",SQ,"/",">">>,
     <<"<","/","a",">">>,
     <<"<","/","a"," ",">">>,
     <<"<","!","-","-","c","-","-",">">>,
     <<"<","!","[","C","D","A","T","A","[","c","]","]",">">>,
     <<"<","?","p"," ","a","=",DQ,"1",DQ," ","b","=",DQ,"2",DQ,"?",">">>,
     <<"<","?","p"," "," ","x","?",">">>,
     <<"<","?","x","m","l"," ","v","e","r","s","i","o","n","=",DQ,"1",".","0",DQ," ",
       "e","n","c","o","d","i","n","g","=",DQ,"u","t","f","-","8",DQ,"?",">">>,
     <<"<","!","D","O","C","T","Y","P","E"," ","a",">">>,
     <<"<","!","D","O","C","T","Y","P","E"," "," ","a"," ","S","Y","S","T","E","M"," ",SQ,"s",SQ," ","[","e","]",">">>
    }

\* the values the calls are made with
TagNames == {<<"a">>, <<"q", ":", "c">>}
Prefixes == {<<>>, <<"p">>}
AttrNames == {<<"a">>, <<"B">>, <<"b">>}
AttrValues == {<<"1">>, <<"x">>}
PseudoNames(t) ==
    IF t.kind = "XmlDecl" THEN {<<"e", "n", "c", "o", "d", "i", "n", "g">>}
    ELSE {<<"a">>, <<"b">>}
Orders == {<<>>, <<<<"B">>>>, <<<<"B">>, <<"a">>>>, <<<<"a">>, <<"b">>>>,
           <<<<"b">>, <<"b">>>>, <<<<"b">>, <<"a">>, <<"B">>>>}
Contents == {<<>>, <<"c">>, <<"d", "-">>}
Targets == {<<"p">>, <<"q">>}
Instructions == {<<>>, <<" ", "x">>, <<"b", "=", DQ, "1", DQ>>}
DocumentElements == {<<"a">>, <<"d">>}
IdTypes == {<<>>, <<"S", "Y", "S", "T", "E", "M">>, <<"P", "U", "B", "L", "I", "C">>}
IdValues == {<<>>, <<"s">>}
InternalSubsets == {<<>>, <<"e">>}

TokenizerFrame == UNCHANGED <<input, pos, tokens, mspans, pc, encoding>> /\ FilterFrame

\* the call is made on tok; it returned normally unless exc says otherwise
Call(op, t, exc) ==
    /\ tok' = t
    /\ last' = op
    /\ raised' = exc
    /\ inserted' = IF t.kind \in {"Start", "Empty"} /\ op.op = "set_attribute_order"
                   THEN Keys(t.attributes)
                   ELSE IF t.kind \in {"Start", "Empty"} /\ op.op = "setitem"
                   THEN (IF \E i \in 1..Len(inserted) : inserted[i] = op.key
                         THEN inserted ELSE Append(inserted, op.key))
                   ELSE IF t.kind \in {"Start", "Empty"}
                           /\ op.op \in {"delitem", "delete_attribute"}
                   THEN SelectSeq(inserted, LAMBDA k : k # op.key)
                   ELSE inserted
    /\ TokenizerFrame

\* Start(xml), Empty(xml), ... : the token is built from a literal
InitToken ==
    /\ input \in TokenLiterals
    /\ pos = 1
    /\ tokens = <<>>
    /\ mspans = <<>>
    /\ pc = "token"
    /\ encoding = IF MarkupClass(input) = "XmlDecl"
                  THEN XmlDeclEncoding(input, DefaultEncoding) ELSE DefaultEncoding
    /\ tok = Construct(MarkupClass(input), input)
    /\ last = NoOp
    /\ raised = "none"
    /\ inserted = Keys(tok.attributes)
    /\ NoFilter

\* token.name = v
SetName ==
    /\ pc = "token" /\ tok.kind \in TagKinds
    /\ \E v \in TagNames :
        Call(Op("set_name", <<>>, v, FALSE, None, NoToken), Tag_set_name(tok, v), "none")

\* token.ns_prefix = v
SetNsPrefix ==
    /\ pc = "token" /\ tok.kind \in TagKinds
    /\ \E v \in Prefixes :
        Call(Op("set_ns_prefix", <<>>, v, FALSE, None, NoToken),
             Tag_set_ns_prefix(tok, v), "none")

\* token[k] on a Start or Empty token
GetAttribute ==
    /\ pc = "token" /\ tok.kind \in {"Start", "Empty"}
    /\ \E k \in AttrNames :
        Call(Op("getitem", k, <<>>, FALSE, StartOrEmpty_getitem(tok, k), NoToken),
             tok, "none")

\* token.attributes[k]
AttributesGetItem ==
    /\ pc = "token" /\ tok.kind \in {"Start", "Empty"}
    /\ \E k \in AttrNames :
        Call(Op("attributes_getitem", k, <<>>, FALSE,
                Some(DictItem(tok.attributes, k)), NoToken),
             tok, "none")

\* token[k] = v on a Start or Empty token
SetAttribute ==
    /\ pc = "token" /\ tok.kind \in {"Start", "Empty"}
    /\ \E k \in AttrNames, v \in AttrValues :
        Call(Op("setitem", k, v, FALSE, None, NoToken),
             StartOrEmpty_setitem(tok, k, v), "none")

\* del token[k] on a Start or Empty token
DelAttribute ==
    /\ pc = "token" /\ tok.kind \in {"Start", "Empty"}
    /\ \E k \in AttrNames :
        Call(Op("delitem", k, <<>>, FALSE, None, NoToken),
             StartOrEmpty_delitem(tok, k), "none")

\* token.delete_attribute(k)
DeleteAttribute ==
    /\ pc = "token" /\ tok.kind \in {"Start", "Empty"}
    /\ \E k \in AttrNames :
        Call(Op("delete_attribute", k, <<>>, FALSE, None, NoToken),
             delete_attribute(tok, k), "none")

\* token.set_attribute_order(o, sort)
SetAttributeOrder ==
    /\ pc = "token" /\ tok.kind \in {"Start", "Empty"}
    /\ \E o \in Orders, sort \in BOOLEAN :
        Call(Op("set_attribute_order", <<>>, o, sort, None, NoToken),
             set_attribute_order(tok, o, sort), "none")

\* token.content = v
SetContent ==
    /\ pc = "token" /\ tok.kind \in {"Comment", "Cdata"}
    /\ \E v \in Contents :
        Call(Op("set_content", <<>>, v, FALSE, None, NoToken), set_content(tok, v), "none")

\* pi[k]
GetPseudoAttribute ==
    /\ pc = "token" /\ tok.kind \in PIKinds
    /\ \E k \in PseudoNames(tok) :
        Call(Op("getitem", k, <<>>, FALSE, PI_getitem_value(tok, k), NoToken),
             PI_getitem(tok, k), "none")

\* k in pi
ContainsPseudoAttribute ==
    /\ pc = "token" /\ tok.kind \in PIKinds
    /\ \E k \in PseudoNames(tok) :
        Call(Op("contains", k, <<>>, FALSE, PI_contains(tok, k), NoToken), tok, "none")

\* pi[k] = v
SetPseudoAttribute ==
    /\ pc = "token" /\ tok.kind \in PIKinds
    /\ Len(tok.instruction) <= Len(PI(tok.kind, input).instruction) + MaxGrowth
    /\ \E k \in PseudoNames(tok), v \in AttrValues :
        Call(Op("setitem", k, v, FALSE, None,
                IF last.op = "delitem" /\ last.key = k /\ raised = "none"
                THEN last.before ELSE NoToken),
             PI_setitem(tok, k, v), "none")

\* del pi[k]; KeyError comes out of it when the name has no span
DelPseudoAttribute ==
    /\ pc = "token" /\ tok.kind \in PIKinds
    /\ \E k \in PseudoNames(tok) :
        Call(Op("delitem", k, <<>>, FALSE, None, tok), PI_delitem(tok, k),
             IF PI_delitem_raises(tok, k) THEN "KeyError" ELSE "none")

\* pi.target = v
SetTarget ==
    /\ pc = "token" /\ tok.kind \in PIKinds
    /\ \E v \in Targets :
        Call(Op("set_target", <<>>, v, FALSE, None, NoToken), PI_set_target(tok, v), "none")

\* pi.instruction = v
SetInstruction ==
    /\ pc = "token" /\ tok.kind \in PIKinds
    /\ \E v \in Instructions :
        Call(Op("set_instruction", <<>>, v, FALSE, None, NoToken),
             PI_set_instruction(tok, v), "none")

\* doctype.document_element = v
SetDocumentElement ==
    /\ pc = "token" /\ tok.kind = "Doctype"
    /\ \E v \in DocumentElements :
        Call(Op("set_document_element", <<>>, v, FALSE, None, NoToken),
             Doctype_set_document_element(tok, v), "none")

\* doctype.id_type = v
SetIdType ==
    /\ pc = "token" /\ tok.kind = "Doctype"
    /\ \E v \in IdTypes :
        Call(Op("set_id_type", <<>>, v, FALSE, None, NoToken),
             Doctype_set_id_type(tok, v), "none")

\* doctype.id_value = v
SetIdValue ==
    /\ pc = "token" /\ tok.kind = "Doctype"
    /\ \E v \in IdValues :
        Call(Op("set_id_value", <<>>, v, FALSE, None, NoToken),
             Doctype_set_id_value(tok, v), "none")

\* doctype.internal_subset = v
SetInternalSubset ==
    /\ pc = "token" /\ tok.kind = "Doctype"
    /\ \E v \in InternalSubsets :
        Call(Op("set_internal_subset", <<>>, v, FALSE, None, NoToken),
             Doctype_set_internal_subset(tok, v), "none")

NextToken ==
    \/ SetName
    \/ SetNsPrefix
    \/ GetAttribute
    \/ AttributesGetItem
    \/ SetAttribute
    \/ DelAttribute
    \/ DeleteAttribute
    \/ SetAttributeOrder
    \/ SetContent
    \/ GetPseudoAttribute
    \/ ContainsPseudoAttribute
    \/ SetPseudoAttribute
    \/ DelPseudoAttribute
    \/ SetTarget
    \/ SetInstruction
    \/ SetDocumentElement
    \/ SetIdType
    \/ SetIdValue
    \/ SetInternalSubset

SpecToken == InitToken /\ [][NextToken]_vars

-----------------------------------------------------------------------------
(* token_filters.py.  A filter runs over the tokens tokenize gives for an   *)
(* input: tokens is that iterator and consumed the number of tokens taken   *)
(* from it.                                                                 *)

\* the token tokenize yields for the match of s with the span sp
TokenOf(s, sp) ==
    Let(Slice(s, sp[1], sp[2]),
        LAMBDA xml : IF xml[1] # "<" THEN Text(xml)
                     ELSE IF xml[Len(xml)] = ">" THEN Construct(MarkupClass(xml), xml)
                     ELSE Error(xml, sp))

\* the tokens of tokenize(s), for an s whose matches tokenize classifies
tokenize(s) ==
    Let(XML_SPE_finditer(s, 1), LAMBDA ms : [i \in 1..Len(ms) |-> TokenOf(s, ms[i])])

\* inputs made of up to n of the pieces
Pieces(items, n) == {Concat(q) : q \in UNION {[1..k -> items] : k \in 0..n}}

MaxWfTokens == 4

WfItems ==
    {<<"<", "a", ">">>,
     <<"<", "b", ">">>,
     <<"<", "/", "a", ">">>,
     <<"<", "/", "b", ">">>,
     <<"<", "b", "/", ">">>,
     <<"<", "a">>,
     <<"t">>}

\* a filter is called with the iterator tokenize(input)
InitFilter(f, inputs, keeps) ==
    /\ input \in inputs
    /\ pos = Len(input) + 1
    /\ tokens = tokenize(input)
    /\ mspans = XML_SPE_finditer(input, 1)
    /\ pc = "filter"
    /\ encoding = DefaultEncoding
    /\ tok = NoToken
    /\ last = NoOp
    /\ raised = "none"
    /\ inserted = <<>>
    /\ filter = f
    /\ keep_minimized \in keeps
    /\ consumed = 0
    /\ stack = <<>>
    /\ yielded = <<>>
    /\ contexts = <<>>
    /\ message = <<>>

\* what no filter changes
FilterRest ==
    UNCHANGED <<input, pos, mspans, encoding, tok, last, inserted, filter, keep_minimized>>

\* "for token in tokens:" of the filter f has a next token
ForToken(f) == filter = f /\ pc = "filter" /\ consumed < Len(tokens)

\* "for token in tokens:" of the filter f is over
ForEnds(f) == filter = f /\ pc = "filter" /\ consumed = Len(tokens)

\* "raise exc(text)" out of the filter
Raise(exc, text) == raised' = exc /\ message' = text /\ pc' = "raised"

\* wellformedness_check: "if token.is_a(Start): stack.append(token)"
WfStart ==
    /\ ForToken("wellformedness_check")
    /\ tokens[consumed + 1].kind = "Start"
    /\ stack' = Append(stack, tokens[consumed + 1])
    /\ yielded' = Append(yielded, tokens[consumed + 1])
    /\ consumed' = consumed + 1
    /\ UNCHANGED <<tokens, pc, raised, contexts, message>>
    /\ FilterRest

\* wellformedness_check: "elif token.is_a(End):", stack.pop() raises
\* IndexError
WfExtraEnd ==
    /\ ForToken("wellformedness_check")
    /\ tokens[consumed + 1].kind = "End" /\ stack = <<>>
    /\ Raise("WellformednessError",
             <<"E", "x", "t", "r", "a", " ", "e", "n", "d", " ", "t", "a", "g", " ", "f", "o", "u", "n", "d", ":", " ", DQ>> \o tokens[consumed + 1].xml \o <<DQ>>)
    /\ consumed' = consumed + 1
    /\ UNCHANGED <<tokens, stack, yielded, contexts>>
    /\ FilterRest

\* wellformedness_check: "if start.name != token.name: raise"
WfMismatch ==
    /\ ForToken("wellformedness_check")
    /\ tokens[consumed + 1].kind = "End" /\ stack # <<>>
    /\ stack[Len(stack)].name # tokens[consumed + 1].name
    /\ Raise("WellformednessError",
             <<DQ>> \o stack[Len(stack)].xml \o <<DQ, " ", "m", "a", "t", "c", "h", "e", "d", " ", "b", "y", " ", DQ>>
             \o tokens[consumed + 1].xml \o <<DQ>>)
    /\ stack' = SubSeq(stack, 1, Len(stack) - 1)
    /\ consumed' = consumed + 1
    /\ UNCHANGED <<tokens, yielded, contexts>>
    /\ FilterRest

\* wellformedness_check: an End token that matches the popped Start
WfEnd ==
    /\ ForToken("wellformedness_check")
    /\ tokens[consumed + 1].kind = "End" /\ stack # <<>>
    /\ stack[Len(stack)].name = tokens[consumed + 1].name
    /\ stack' = SubSeq(stack, 1, Len(stack) - 1)
    /\ yielded' = Append(yielded, tokens[consumed + 1])
    /\ consumed' = consumed + 1
    /\ UNCHANGED <<tokens, pc, raised, contexts, message>>
    /\ FilterRest

\* wellformedness_check: "elif token.is_a(Error): raise
\* MarkupError(token.xml + tokens.next().xml)", the iterator has a next token
WfError ==
    /\ ForToken("wellformedness_check")
    /\ tokens[consumed + 1].kind = "Error" /\ consumed + 1 < Len(tokens)
    /\ Raise("MarkupError", tokens[consumed + 1].xml \o tokens[consumed + 2].xml)
    /\ consumed' = consumed + 2
    /\ UNCHANGED <<tokens, stack, yielded, contexts>>
    /\ FilterRest

\* wellformedness_check: the same when the Error token is the last one:
\* tokens.next() raises StopIteration inside the generator, which ends the
\* generator as its exhaustion does
WfErrorLast ==
    /\ ForToken("wellformedness_check")
    /\ tokens[consumed + 1].kind = "Error" /\ consumed + 1 = Len(tokens)
    /\ pc' = "done"
    /\ consumed' = consumed + 1
    /\ UNCHANGED <<tokens, raised, stack, yielded, contexts, message>>
    /\ FilterRest

\* the same, with an Empty token pushed on the stack as a Start token is
WfOther_PushEmpty ==
    /\ ForToken("wellformedness_check")
    /\ tokens[consumed + 1].kind \notin {"Start", "End", "Error"}
    /\ yielded' = Append(yielded, tokens[consumed + 1])
    /\ stack' = IF tokens[consumed + 1].kind = "Empty"
                THEN Append(stack, tokens[consumed + 1]) ELSE stack
    /\ consumed' = consumed + 1
    /\ UNCHANGED <<tokens, pc, raised, contexts, message>>
    /\ FilterRest

\* wellformedness_check: any other token, "yield token"
WfOther ==
    /\ ForToken("wellformedness_check")
    /\ tokens[consumed + 1].kind \notin {"Start", "End", "Error"}
    /\ yielded' = Append(yielded, tokens[consumed + 1])
    /\ consumed' = consumed + 1
    /\ UNCHANGED <<tokens, pc, raised, stack, contexts, message>>
    /\ FilterRest

\* wellformedness_check: the iterator is exhausted, the generator returns
WfStop ==
    /\ ForEnds("wellformedness_check")
    /\ pc' = "done"
    /\ UNCHANGED <<tokens, raised, consumed, stack, yielded, contexts, message>>
    /\ FilterRest

MaxExpandTokens == 3

ExpandItems ==
    {<<"<", "a", "/", ">">>,
     <<"<", "b", " ", "c", "=", DQ, "/", DQ, "/", ">">>,
     <<"<", "b", " ", "c", "=", SQ, DQ, SQ, "/", ">">>,
     <<"<", "a", " ", "c", "=", DQ, "1", DQ, " ", "B", "=", DQ, "2", DQ, "/", ">">>,
     <<"<", "a", ">">>,
     <<"t">>}

\* the values of keep_minimized: None or empty, and the name a
KeepSets == {{}, {<<"a">>}}

\* "token.__class__ = Start; token.reserialize()"
AsStart(token) == reserialize([token EXCEPT !.kind = "Start"])

\* xml.replace(c, '')
Remove(xml, c) == SelectSeq(xml, LAMBDA x : x # c)

\* "Start(token.xml.replace('/', ''))" and "End('</%s>' % token.name)", for
\* the token after its class was changed
Expansion(token) ==
    <<StartOrEmpty("Start", Remove(token.xml, "/")),
      End(<<"<", "/">> \o token.name \o <<">">>)>>

\* "keep_minimized and token.name in keep_minimized"
Kept(token) == keep_minimized # {} /\ token.name \in keep_minimized

\* expand_empty_tags: an Empty token that is not kept becomes a Start token,
\* and a Start and an End token built from its text are yielded
ExpandEmpty ==
    /\ ForToken("expand_empty_tags")
    /\ tokens[consumed + 1].kind = "Empty" /\ ~Kept(tokens[consumed + 1])
    /\ \E token \in {AsStart(tokens[consumed + 1])} :
        /\ tokens' = [tokens EXCEPT ![consumed + 1] = token]
        /\ yielded' = yielded \o Expansion(token)
    /\ consumed' = consumed + 1
    /\ UNCHANGED <<pc, raised, stack, contexts, message>>
    /\ FilterRest

\* expand_empty_tags: an Empty token whose name is in keep_minimized
ExpandKeep ==
    /\ ForToken("expand_empty_tags")
    /\ tokens[consumed + 1].kind = "Empty" /\ Kept(tokens[consumed + 1])
    /\ yielded' = Append(yielded, tokens[consumed + 1])
    /\ consumed' = consumed + 1
    /\ UNCHANGED <<tokens, pc, raised, stack, contexts, message>>
    /\ FilterRest

\* expand_empty_tags: "else: yield token"
ExpandOther ==
    /\ ForToken("expand_empty_tags")
    /\ tokens[consumed + 1].kind # "Empty"
    /\ yielded' = Append(yielded, tokens[consumed + 1])
    /\ consumed' = consumed + 1
    /\ UNCHANGED <<tokens, pc, raised, stack, contexts, message>>
    /\ FilterRest

\* expand_empty_tags: the iterator is exhausted, the generator returns
ExpandStop ==
    /\ ForEnds("expand_empty_tags")
    /\ pc' = "done"
    /\ UNCHANGED <<tokens, raised, consumed, stack, yielded, contexts, message>>
    /\ FilterRest

MaxCtxTokens == 5

CtxItems ==
    {<<"<", "a", ">">>,
     <<"<", "b", "/", ">">>,
     <<"<", "c", ">">>,
     <<"<", "/", "c", ">">>,
     <<"<", "/", "a", ">">>,
     <<"t">>}

\* sep.join(names)
RECURSIVE Join(_, _)
Join(names, sep) ==
    IF names = <<>> THEN <<>>
    ELSE IF Len(names) = 1 THEN names[1]
    ELSE names[1] \o sep \o Join(Tail(names), sep)

\* the path recorded whether or not it is in contexts
AddContext_Always(cs, path) == Append(cs, path)

\* "if path not in contexts: contexts[path] = None"
AddContext(cs, path) ==
    IF \E i \in 1..Len(cs) : cs[i] = path THEN cs ELSE Append(cs, path)

\* find_all_contexts: "if token.is_a(StartOrEmpty):"
CtxStartOrEmpty ==
    /\ ForToken("find_all_contexts")
    /\ tokens[consumed + 1].kind \in {"Start", "Empty"}
    /\ contexts' = AddContext(contexts,
                              Join(Append(stack, tokens[consumed + 1].name), <<"/">>))
    /\ stack' = IF tokens[consumed + 1].kind = "Empty" THEN stack
                ELSE Append(stack, tokens[consumed + 1].name)
    /\ consumed' = consumed + 1
    /\ UNCHANGED <<tokens, pc, raised, yielded, message>>
    /\ FilterRest

\* find_all_contexts: "elif token.is_a(End): stack.pop()"
CtxEnd ==
    /\ ForToken("find_all_contexts")
    /\ tokens[consumed + 1].kind = "End" /\ stack # <<>>
    /\ stack' = SubSeq(stack, 1, Len(stack) - 1)
    /\ consumed' = consumed + 1
    /\ UNCHANGED <<tokens, pc, raised, yielded, contexts, message>>
    /\ FilterRest

\* find_all_contexts: stack.pop() on the empty stack raises IndexError
CtxExtraEnd ==
    /\ ForToken("find_all_contexts")
    /\ tokens[consumed + 1].kind = "End" /\ stack = <<>>
    /\ Raise("IndexError", <<"p", "o", "p", " ", "f", "r", "o", "m", " ", "e", "m", "p", "t", "y", " ", "l", "i", "s", "t">>)
    /\ consumed' = consumed + 1
    /\ UNCHANGED <<tokens, stack, yielded, contexts>>
    /\ FilterRest

\* find_all_contexts: a token that is no tag
CtxOther ==
    /\ ForToken("find_all_contexts")
    /\ tokens[consumed + 1].kind \notin {"Start", "Empty", "End"}
    /\ consumed' = consumed + 1
    /\ UNCHANGED <<tokens, pc, raised, stack, yielded, contexts, message>>
    /\ FilterRest

\* find_all_contexts: "return contexts.keys()"
CtxReturn ==
    /\ ForEnds("find_all_contexts")
    /\ pc' = "done"
    /\ UNCHANGED <<tokens, raised, consumed, stack, yielded, contexts, message>>
    /\ FilterRest

InitFilters ==
    \/ InitFilter("wellformedness_check", Pieces(WfItems, MaxWfTokens), {{}})
    \/ InitFilter("expand_empty_tags", Pieces(ExpandItems, MaxExpandTokens), KeepSets)
    \/ InitFilter("find_all_contexts", Pieces(CtxItems, MaxCtxTokens), {{}})

NextFilter ==
    \/ WfStart
    \/ WfExtraEnd
    \/ WfMismatch
    \/ WfEnd
    \/ WfError
    \/ WfErrorLast
    \/ WfOther
    \/ WfStop
    \/ ExpandEmpty
    \/ ExpandKeep
    \/ ExpandOther
    \/ ExpandStop
    \/ CtxStartOrEmpty
    \/ CtxEnd
    \/ CtxExtraEnd
    \/ CtxOther
    \/ CtxReturn

SpecFilter == InitFilters /\ [][NextFilter]_vars

-----------------------------------------------------------------------------
(* Properties of tokenize, checked under Spec *)

Xmls(ts) == [i \in 1..Len(ts) |-> ts[i].xml]
NoErrorToken == \A i \in 1..Len(tokens) : tokens[i].kind # "Error"

\* C1: round trip.  When tokenize has completed and has produced no Error
\* token, the xml of its tokens, one after the other, is the input.
C1_RoundTrip ==
    (pc = "done" /\ NoErrorToken) => Concat(Xmls(tokens)) = input

\* the match with span sp is REX's error condition: markup not ending in '>'
IsErrorMatch(sp) == input[sp[1] + 1] = "<" /\ input[sp[2]] # ">"

\* an Error token that starts like a start tag: '<' and a name
IsStartTagError(t) == t.kind = "Error" /\ IsIn(t.xml, 2, NameStrt)

\* the end offset of the run of a start tag that begins at offset i: the run
\* goes up to the next '<' or to the end of the input
RunEnd(i) == SkipNotIn(input, i + 2, {"<"}) - 1

\* the run from offset i on is unterminated: no '>' in it
Unterminated(i) == \A k \in (i + 1)..RunEnd(i) : input[k] # ">"

\* C4 as stated: when tokenize is over, every unterminated start tag is one
\* Error token whose text is the entire run, up to the next '<' or the end of
\* the input.
C4_SingleErrorForRun ==
    pc = "done" =>
        \A i \in 1..Len(tokens) :
            (IsStartTagError(tokens[i]) /\ Unterminated(mspans[i][1]))
                => mspans[i][2] = RunEnd(mspans[i][1])

\* the Error token i with span sp = <<start, e>> and run end r: its text is
\* the grammar's match; when the match stops short of the run's end, the next
\* token is the Text with the rest of the run; the token after the run starts
\* where the run ends and is the grammar's match there
ErrorThenText(i, sp, r) ==
    /\ sp[2] = XML_SPE(input, sp[1] + 1) - 1
    /\ tokens[i].xml = Slice(input, sp[1], sp[2])
    /\ sp[2] < r =>
        /\ i < Len(tokens)
        /\ tokens[i + 1] = Text(Slice(input, sp[2], r))
        /\ mspans[i + 1] = <<sp[2], r>>
    /\ r < Len(input) =>
        \E j \in {IF sp[2] < r THEN i + 2 ELSE i + 1} :
            /\ j <= Len(tokens)
            /\ mspans[j] = <<r, XML_SPE(input, r + 1) - 1>>
            /\ tokens[j].xml[1] = "<"

Unterminated_a_b == <<"<", "a", " ", "b", "=", DQ, "1">>

\* C4 amended: when tokenize is over, an unterminated start tag is one Error
\* token holding what the grammar matches of the run, then, when that is not
\* the whole run, one Text token holding the rest of the run; what follows
\* the run is tokenized from the run's end on.  <a b="1 gives Error('<a ')
\* and Text('b="1'), and a <a> after it gives the Start token '<a>'.
C4_ErrorThenText ==
    pc = "done" =>
        /\ \A i \in 1..Len(tokens) :
               (IsStartTagError(tokens[i]) /\ Unterminated(mspans[i][1]))
                   => ErrorThenText(i, mspans[i], RunEnd(mspans[i][1]))
        /\ input = Unterminated_a_b =>
               tokens = <<Error(<<"<", "a", " ">>, <<0, 3>>),
                          Text(<<"b", "=", DQ, "1">>)>>
        /\ input = Unterminated_a_b \o <<"<", "a", ">">> =>
               /\ Len(tokens) = 3
               /\ tokens[1] = Error(<<"<", "a", " ">>, <<0, 3>>)
               /\ tokens[2] = Text(<<"b", "=", DQ, "1">>)
               /\ tokens[3] = StartOrEmpty("Start", <<"<", "a", ">">>)

\* C4's case: <a b="1 and then <a> have been tokenized
C4_Witness ==
    /\ pc = "done"
    /\ input = Unterminated_a_b \o <<"<", "a", ">">>
    /\ tokens[1].kind = "Error" /\ tokens[2].kind = "Text" /\ tokens[3].kind = "Start"

\* the token i of the match with span sp, when the match is an error match:
\* one Error token with the matched slice and the match's span, and the next
\* token or the cursor is at the match's end
ErrorTokenOk(i, sp) ==
    IsErrorMatch(sp) =>
        /\ tokens[i].kind = "Error"
        /\ tokens[i].xml = Slice(input, sp[1], sp[2])
        /\ tokens[i].span = sp
        /\ Slice(input, tokens[i].span[1], tokens[i].span[2]) = tokens[i].xml
        /\ i < Len(tokens) => mspans[i + 1][1] = sp[2]
        /\ i = Len(tokens) => pos = sp[2] + 1

\* C5: every match of the grammar that starts with '<' and does not end with
\* '>' has given exactly one Error token, whose xml is the matched slice and
\* whose span gives that slice of the input; the token after it begins at the
\* span's end; no exception comes out of tokenize at such a match, and when
\* tokenize is over the matches have been scanned to the end of the input.
C5_ErrorRecovery ==
    /\ Len(tokens) <= Len(XML_SPE_finditer(input, 1))
    /\ \A i \in 1..Len(tokens) : ErrorTokenOk(i, XML_SPE_finditer(input, 1)[i])
    /\ \A i \in 1..Len(tokens) :
           tokens[i].kind = "Error" => IsErrorMatch(XML_SPE_finditer(input, 1)[i])
    /\ pc = "raised" => ~IsErrorMatch(XML_SPE_finditer(input, 1)[Len(tokens) + 1])
    /\ pc = "done" =>
           /\ Len(tokens) = Len(XML_SPE_finditer(input, 1))
           /\ pos = Len(input) + 1

\* C5's case: tokenize is over, an Error token was yielded and a token after
\* it
C5_Witness ==
    /\ pc = "done"
    /\ \E i \in 1..(Len(tokens) - 1) :
           tokens[i].kind = "Error" /\ tokens[i + 1].kind # "Text"

-----------------------------------------------------------------------------
(* Properties of the tokens and their setters, checked under SpecToken *)

\* the attributes as ' name="value"' pairs, a '"' in a value as &quot;
RenderAttributes(d) ==
    Concat([i \in 1..Len(d) |->
        <<" ">> \o d[i][1] \o <<"=", DQ>>
        \o Concat([j \in 1..Len(d[i][2]) |->
               IF d[i][2][j] = DQ THEN <<"&", "q", "u", "o", "t", ";">>
               ELSE <<d[i][2][j]>>])
        \o <<DQ>>])

\* the canonical rendering of the fields of a token
Rendering(t) ==
    CASE t.kind = "Start" -> <<"<">> \o t.name \o RenderAttributes(t.attributes) \o <<">">>
      [] t.kind = "Empty" ->
            <<"<">> \o t.name \o RenderAttributes(t.attributes) \o <<"/", ">">>
      [] t.kind = "End" -> <<"<", "/">> \o t.name \o <<">">>
      [] t.kind = "Comment" -> <<"<", "!", "-", "-">> \o t.content \o <<"-", "-", ">">>
      [] t.kind = "Cdata" ->
            <<"<", "!", "[", "C", "D", "A", "T", "A", "[">> \o t.content \o <<"]", "]", ">">>
      [] t.kind \in PIKinds ->
            <<"<", "?">> \o t.target
            \o (IF t.instruction # <<>> THEN <<" ">> ELSE <<>>) \o t.instruction
            \o <<"?", ">">>
      [] t.kind = "Doctype" ->
            <<"<", "!", "D", "O", "C", "T", "Y", "P", "E", " ">> \o t.document_element
            \o (IF t.id_type # <<>> THEN <<" ">> \o t.id_type ELSE <<>>)
            \o (IF t.id_value # <<>> THEN <<" ", DQ>> \o t.id_value \o <<DQ>> ELSE <<>>)
            \o (IF t.internal_subset # <<>>
                THEN <<" ", "[">> \o t.internal_subset \o <<"]">> ELSE <<>>)
            \o <<">">>

\* the structured fields of a token
FieldsOf(t) ==
    <<t.name, t.attributes, t.content, t.target, t.instruction,
      t.document_element, t.id_type, t.id_value, t.internal_subset>>

Setters ==
    {"set_name", "set_ns_prefix", "setitem", "delitem", "delete_attribute",
     "set_attribute_order", "set_content", "set_target", "set_instruction",
     "set_document_element", "set_id_type", "set_id_value", "set_internal_subset"}

\* C2: mutate, then reserialize.  After a setter call that changes a field of
\* the token, the xml is the canonical rendering of the fields as they are
\* now; and an xml that is the canonical rendering stays so through every
\* call, so that after any sequence of such calls the xml is not stale.
C2_MutateThenReserialize ==
    [][/\ (last'.op \in Setters /\ raised' = "none" /\ FieldsOf(tok') # FieldsOf(tok))
            => tok'.xml = Rendering(tok')
       /\ tok.xml = Rendering(tok) => tok'.xml = Rendering(tok')]_vars

\* C2's case: the name of <p:a a="1" B='2'> has been set to q:c
C2_Witness ==
    /\ last.op = "set_name" /\ last.val = <<"q", ":", "c">>
    /\ tok.kind = "Start" /\ tok.name = <<"q", ":", "c">>
    /\ tok.xml = <<"<", "q", ":", "c", " ", "a", "=", DQ, "1", DQ, " ",
                   "B", "=", DQ, "2", DQ, ">">>

\* the call made in this step gives a field of tok the value it has
SelfAssignment ==
    \/ last'.op = "set_name" /\ last'.val = tok.name
    \/ last'.op = "set_ns_prefix" /\ last'.val = Tag_ns_prefix(tok)
    \/ /\ last'.op = "setitem" /\ tok.kind \in {"Start", "Empty"}
       /\ HasKey(tok.attributes, last'.key)
       /\ last'.val = DictItem(tok.attributes, last'.key)
    \/ last'.op = "set_content" /\ last'.val = tok.content
    \/ last'.op = "set_target" /\ last'.val = tok.target
    \/ last'.op = "set_instruction" /\ last'.val = tok.instruction
    \/ last'.op = "set_document_element" /\ last'.val = tok.document_element
    \/ last'.op = "set_id_type" /\ last'.val = tok.id_type
    \/ last'.op = "set_id_value" /\ last'.val = tok.id_value
    \/ last'.op = "set_internal_subset" /\ last'.val = tok.internal_subset

\* C3: idempotence.  On a token as it was built from its literal text, a
\* call that gives a field the value it has leaves the xml as it is.
C3_SelfAssignmentKeepsXml ==
    [][(last.op = "none" /\ SelfAssignment) => tok'.xml = tok.xml]_vars

\* the names of the attributes in xml, in the order they are written
XmlAttributeNames(xml) ==
    Let(AttRE_finditer(xml, 1),
        LAMBDA ms : [i \in 1..Len(ms) |-> ms[i].attribute_name])

\* d is d0 after d0[k] = v: an old key keeps its place and takes the value,
\* a new key goes to the end
IsSetOf(d, d0, k, v) ==
    IF HasKey(d0, k)
    THEN /\ Len(d) = Len(d0)
         /\ \A i \in 1..Len(d0) : d[i] = IF d0[i][1] = k THEN <<k, v>> ELSE d0[i]
    ELSE d = Append(d0, <<k, v>>)

\* C6: the attribute map of a Start or Empty token.  A set appends a new name
\* at the end and replaces the value of an old name in place; after every
\* call the keys are unique, and the keys, and the names written in the xml,
\* are in the order the surviving names were inserted.
C6_AttributeMap ==
    /\ [](tok.kind \in {"Start", "Empty"} =>
            /\ \A i, j \in 1..Len(tok.attributes) :
                   tok.attributes[i][1] = tok.attributes[j][1] => i = j
            /\ Keys(tok.attributes) = inserted
            /\ XmlAttributeNames(tok.xml) = inserted)
    /\ [][(tok'.kind \in {"Start", "Empty"} /\ last'.op = "setitem") =>
            IsSetOf(tok'.attributes, tok.attributes, last'.key, last'.val)]_vars

\* C6's case: on a token with the attributes a and B, in that order, a has
\* been set to x: a has the new value at its old place, before B
C6_Witness ==
    /\ tok.kind = "Start" /\ last.op = "setitem" /\ last.key = <<"a">>
    /\ tok.attributes = <<<<<<"a">>, <<"x">>>>, <<<<"B">>, <<"2">>>>>>
    /\ inserted = <<<<"a">>, <<"B">>>>

\* name k does not occur in the token: it is no key of the attributes of a
\* Start or Empty token, no pseudo-attribute of the instruction of a PI
Absent(t, k) ==
    IF t.kind \in PIKinds
    THEN \A i \in 1..Len(AttRE_finditer(<<" ">> \o t.instruction, 1)) :
             AttRE_finditer(<<" ">> \o t.instruction, 1)[i].attribute_name # k
    ELSE ~HasKey(t.attributes, k)

\* C7: the lookup of a name that is absent, by token[name] or by
\* token.attributes[name], returns the empty string and raises nothing; the
\* name is still absent afterwards and the xml is as it was.
C7_MissingLookup ==
    [][(last'.op \in {"getitem", "attributes_getitem"} /\ Absent(tok, last'.key)) =>
        /\ last'.ret = Some(<<>>)
        /\ raised' = "none"
        /\ Absent(tok', last'.key)
        /\ tok'.xml = tok.xml]_vars

\* C8: deleting a name that is absent, by del token[name] or by
\* delete_attribute, raises nothing and leaves the fields, the order of the
\* attributes and the xml as they were.
C8_DeleteAbsent ==
    [][(last'.op \in {"delitem", "delete_attribute"} /\ Absent(tok, last'.key)) =>
        /\ raised' = "none"
        /\ FieldsOf(tok') = FieldsOf(tok)
        /\ tok'.xml = tok.xml]_vars

\* the elements of a sequence
Range(q) == {q[i] : i \in 1..Len(q)}

\* where k comes first in the order o
FirstIndex(o, k) == Min({i \in 1..Len(o) : o[i] = k})

\* ks is what set_attribute_order(o, sort) makes of the keys ks0: the keys
\* that o names come first, as o orders them, n of them; the others follow as
\* they were, or sorted without regard to case
IsOrderOf(ks, ks0, o, sort, n) ==
    /\ Len(ks) = Len(ks0) /\ Range(ks) = Range(ks0)
    /\ n = Cardinality(Range(ks0) \cap Range(o))
    /\ \A i \in 1..n : ks[i] \in Range(o)
    /\ \A i, j \in 1..n : i < j => FirstIndex(o, ks[i]) < FirstIndex(o, ks[j])
    /\ ~sort => SubSeq(ks, n + 1, Len(ks)) = SelectSeq(ks0, LAMBDA k : k \notin Range(o))
    /\ sort => \A i, j \in (n + 1)..Len(ks) :
                   i < j => ~StrLess(lower(ks[j]), lower(ks[i]))

\* C9: after set_attribute_order(attribute_order, sort) the attributes that
\* attribute_order names and the token has come first, in the listed order;
\* the others follow in their old order, or in case-insensitive sorted order
\* when sort is true; names the token lacks are ignored; the name/value
\* pairs are those of before, and the xml is written in the new order.
C9_SetAttributeOrder ==
    [][last'.op = "set_attribute_order" =>
        /\ IsOrderOf(Keys(tok'.attributes), Keys(tok.attributes), last'.val,
                     last'.sort, Cardinality(Range(Keys(tok.attributes))
                                             \cap Range(last'.val)))
        /\ Range(tok'.attributes) = Range(tok.attributes)
        /\ tok'.xml = Rendering(tok')
        /\ XmlAttributeNames(tok'.xml) = Keys(tok'.attributes)]_vars

\* C9's case: the attributes a, B were put in the order [B], which gives B, a
C9_Witness ==
    /\ last.op = "set_attribute_order" /\ last.val = <<<<"B">>>> /\ ~last.sort
    /\ tok.xml = <<"<", "p", ":", "a", " ", "B", "=", DQ, "2", DQ, " ",
                   "a", "=", DQ, "1", DQ, ">">>

\* the matches of AttRE in the instruction that have the name n
Occurrences(instruction, n) ==
    SelectSeq(AttRE_finditer(<<" ">> \o instruction, 1),
              LAMBDA m : m.attribute_name = n)

\* the instruction without its pseudo-attribute m and the whitespace before
\* it
WithoutOccurrence(instruction, m) ==
    Slice(instruction, 0, IF m.i - 1 < 0 THEN 0 ELSE m.i - 1)
    \o SubSeq(instruction, m.j, Len(instruction))

\* C10: delete, then add again.  When del pi[n] on an instruction in which
\* the pseudo-attribute n occurs is followed by pi[n] = v, the instruction is
\* the one before the delete without the occurrence of n, with n="v" added
\* once at the end: the other pseudo-attributes are as they were and nothing
\* is left of the old occurrence.
C10_DeleteThenAdd ==
    (/\ tok.kind \in PIKinds /\ last.op = "setitem" /\ last.before.kind # "none"
     /\ Len(Occurrences(last.before.instruction, last.key)) = 1)
        => tok.instruction =
               LStrip(WithoutOccurrence(last.before.instruction,
                                        Occurrences(last.before.instruction,
                                                    last.key)[1])
                      \o PseudoText(last.key, last.val))

\* the span sp = <<name, i, j>> is that of an occurrence of the name in the
\* instruction: instruction[i:j] is a match of AttRE for the name, with the
\* whitespace before it, if any
SpanIsOccurrence(instruction, sp) ==
    \E x \in Range(Occurrences(instruction, sp[1])) :
        /\ sp[2] = (IF x.i - 1 < 0 THEN 0 ELSE x.i - 1)
        /\ sp[3] = x.j - 1

\* C11: span consistency.  After a pseudo-attribute set or delete on a
\* processing instruction, every recorded span (i, j) is such that
\* instruction[i:j] is the occurrence of its pseudo-attribute in the
\* instruction as it is now.
C11_SpanConsistency ==
    (/\ tok.kind \in PIKinds /\ tok.parsed
     /\ last.op \in {"setitem", "delitem"} /\ raised = "none")
        => \A sp \in tok.spans : SpanIsOccurrence(tok.instruction, sp)

-----------------------------------------------------------------------------
(* Properties of the filters, checked under SpecFilter *)

NoErrorIn(ts) == \A i \in 1..Len(ts) : ts[i].kind # "Error"

\* the indices of the Start tokens among the first n of ts that no End token
\* among them has closed, the innermost last; an End token closes the
\* innermost one
RECURSIVE OpenStarts(_, _)
OpenStarts(ts, n) ==
    IF n = 0 THEN <<>>
    ELSE Let(OpenStarts(ts, n - 1),
             LAMBDA o : IF ts[n].kind = "Start" THEN Append(o, n)
                        ELSE IF ts[n].kind = "End" THEN SubSeq(o, 1, Len(o) - 1)
                        ELSE o)

\* token k of ts is an End token that arrives when no Start is open, or whose
\* name is not that of the innermost open Start
BadEnd(ts, k) ==
    /\ ts[k].kind = "End"
    /\ Let(OpenStarts(ts, k - 1),
           LAMBDA o : o = <<>> \/ ts[o[Len(o)]].name # ts[k].name)

\* the text of the error for the bad End token k: the extra end tag, or the
\* Start and the End that do not match
BadEndMessage(ts, k) ==
    Let(OpenStarts(ts, k - 1),
        LAMBDA o : IF o = <<>>
                   THEN <<"E", "x", "t", "r", "a", " ", "e", "n", "d", " ", "t", "a", "g", " ", "f", "o", "u", "n", "d", ":", " ", DQ>> \o ts[k].xml \o <<DQ>>
                   ELSE <<DQ>> \o ts[o[Len(o)]].xml \o <<DQ, " ", "m", "a", "t", "c", "h", "e", "d", " ", "b", "y", " ", DQ>>
                        \o ts[k].xml \o <<DQ>>)

\* the state of wellformedness_check over ts, whose bad End tokens are bad
WfState(ts, bad) ==
    /\ pc = "raised" =>
           /\ raised = "WellformednessError"
           /\ bad # {} /\ consumed = Min(bad)
           /\ message = BadEndMessage(ts, consumed)
           /\ yielded = SubSeq(ts, 1, consumed - 1)
    /\ pc = "done" => bad = {} /\ yielded = ts
    /\ pc = "filter" =>
           /\ \A k \in bad : consumed < k
           /\ yielded = SubSeq(ts, 1, consumed)
           /\ stack = [i \in 1..Len(OpenStarts(ts, consumed)) |->
                           ts[OpenStarts(ts, consumed)[i]]]

\* C12: wellformedness_check on a stream without Error tokens raises
\* WellformednessError exactly at the first End token that arrives when no
\* Start is open (the message names the extra end tag) or whose name is not
\* that of the innermost open Start (the message names both tags), having
\* yielded the tokens before it; when there is no such End token it yields
\* every token, unchanged and in order, and ends, whether or not Start tags
\* are still open; the stack holds the open Start tokens only, never an
\* Empty token.
C12_Wellformedness ==
    (filter = "wellformedness_check" /\ NoErrorIn(tokens)) =>
        WfState(tokens, {k \in 1..Len(tokens) : BadEnd(tokens, k)})

\* C12's case: <a><b></a></b> has raised the mismatch of <b> and </a>
C12_Witness ==
    /\ filter = "wellformedness_check" /\ pc = "raised"
    /\ input = <<"<", "a", ">", "<", "b", ">", "<", "/", "a", ">", "<", "/", "b", ">">>
    /\ message = <<DQ, "<", "b", ">", DQ, " ", "m", "a", "t", "c", "h", "e", "d", " ", "b", "y", " ", DQ, "<", "/", "a", ">", DQ>>
    /\ Xmls(yielded) = <<<<"<", "a", ">">>, <<"<", "b", ">">>>>

\* C13: once wellformedness_check has taken an Error token from the
\* iterator, whatever its position in the stream, it has raised MarkupError
\* to its caller: it has not ended, and it has yielded no Error token.
C13_ErrorRaisesMarkupError ==
    (/\ filter = "wellformedness_check"
     /\ \E k \in 1..consumed : tokens[k].kind = "Error")
        => /\ pc = "raised" /\ raised = "MarkupError"
           /\ NoErrorIn(yielded)

\* what the claim gives for the token t and the names keep: an Empty token
\* whose name is not in keep gives a token of the class Start and one of the
\* class End; any other token gives itself
Expands(t, keep) == t.kind = "Empty" /\ t.name \notin keep

\* the classes, names and attributes of the tokens expected for the first n
\* tokens of ts
RECURSIVE ExpectedFields(_, _, _)
ExpectedFields(ts, keep, n) ==
    IF n = 0 THEN <<>>
    ELSE ExpectedFields(ts, keep, n - 1)
         \o (IF Expands(ts[n], keep)
             THEN <<<<"Start", ts[n].name, ts[n].attributes>>,
                    <<"End", ts[n].name, <<>>>>>>
             ELSE <<<<ts[n].kind, ts[n].name, ts[n].attributes>>>>)

\* the tokens expected for the first n tokens of ts, with the Start and End
\* tokens of an expansion left open
RECURSIVE ExpectedTokens(_, _, _)
ExpectedTokens(ts, keep, n) ==
    IF n = 0 THEN <<>>
    ELSE ExpectedTokens(ts, keep, n - 1)
         \o (IF Expands(ts[n], keep) THEN <<NoToken, NoToken>> ELSE <<ts[n]>>)

\* the tokens expand_empty_tags has yielded are those expected for the
\* tokens ts it has consumed
ExpandedAs(ts, keep) ==
    /\ [i \in 1..Len(yielded) |->
            <<yielded[i].kind, yielded[i].name, yielded[i].attributes>>]
           = ExpectedFields(ts, keep, consumed)
    /\ \A i \in 1..Len(yielded) :
           ExpectedTokens(ts, keep, consumed)[i] # NoToken
               => yielded[i] = ExpectedTokens(ts, keep, consumed)[i]

\* C14: expand_empty_tags has yielded, for each token tokenize gave it so
\* far and in the same order: for an Empty token whose name is not in
\* keep_minimized a Start token and an End token with its name, the Start
\* with the same attribute names, values and order; for any other token the
\* token itself, unchanged.
C14_ExpandEmptyTags ==
    filter = "expand_empty_tags" => ExpandedAs(tokenize(input), keep_minimized)

IsTag(t) == t.kind \in {"Start", "Empty"}

\* the path of the Start or Empty token k of ts: the names of the Start
\* tokens open before it and its own name, joined with '/'
PathAt(ts, k) ==
    Let(OpenStarts(ts, k - 1),
        LAMBDA o : Join([i \in 1..Len(o) |-> ts[o[i]].name] \o <<ts[k].name>>, <<"/">>))

\* the Start and Empty tokens among the first n of ts whose path no Start or
\* Empty token before them has
FirstSeen(ts, n) ==
    {k \in 1..n : /\ IsTag(ts[k])
                  /\ \A j \in 1..(k - 1) : IsTag(ts[j]) => PathAt(ts, j) # PathAt(ts, k)}

\* the elements of the set of numbers ks, in ascending order
Ascending(ks) ==
    [i \in 1..Cardinality(ks) |->
         CHOOSE k \in ks : Cardinality({j \in ks : j < k}) = i - 1]

\* the paths of the first n tokens of ts, each once, in the order of their
\* first occurrence
PathsOf(ts, n) ==
    Let(Ascending(FirstSeen(ts, n)),
        LAMBDA ks : [i \in 1..Len(ks) |-> PathAt(ts, ks[i])])

\* C15: find_all_contexts over a stream in which every End token closes the
\* innermost open Start token.  The contexts are the '/'-joined paths of the
\* open element names at each Start or Empty token taken so far, each once
\* and in the order of first occurrence; the stack holds the names of the
\* open Start tokens, so an Empty token does not stay on it and an End token
\* takes one name off; nothing is raised, and the function returns when all
\* tokens are taken.  <a><b/><c></c></a> gives a, a/b, a/c.
C15_FindAllContexts ==
    (filter = "find_all_contexts" /\ \A k \in 1..Len(tokens) : ~BadEnd(tokens, k)) =>
        /\ contexts = PathsOf(tokens, consumed)
        /\ stack = [i \in 1..Len(OpenStarts(tokens, consumed)) |->
                        tokens[OpenStarts(tokens, consumed)[i]].name]
        /\ raised = "none"
        /\ pc = "done" => consumed = Len(tokens)
        /\ (pc = "done" /\ input = <<"<", "a", ">", "<", "b", "/", ">", "<", "c", ">", "<", "/", "c", ">", "<", "/", "a", ">">>) => contexts = <<<<"a">>, <<"a", "/", "b">>, <<"a", "/", "c">>>>

\* C15's case: find_all_contexts has returned for <a><b/><c></c></a>
C15_Witness ==
    /\ filter = "find_all_contexts" /\ pc = "done"
    /\ input = <<"<", "a", ">", "<", "b", "/", ">", "<", "c", ">", "<", "/", "c", ">", "<", "/", "a", ">">>
    /\ contexts = <<<<"a">>, <<"a", "/", "b">>, <<"a", "/", "c">>>>

-----------------------------------------------------------------------------
(* Properties of the pseudo-attribute cache, checked under SpecToken *)

\* the name/value pairs that the matches ms of AttRE stand for: each name
\* once, in the order of first occurrence, with the value of its last
\* occurrence, without the delimiters
PairsOfMatches(ms) ==
    Let(Ascending({i \in 1..Len(ms) :
                       \A j \in 1..(i - 1) : ms[j].attribute_name # ms[i].attribute_name}),
        LAMBDA ks :
            [n \in 1..Len(ks) |->
                 <<ms[ks[n]].attribute_name,
                   Undelimited(ms[Max({j \in 1..Len(ms) :
                                           ms[j].attribute_name = ms[ks[n]].attribute_name})]
                                   .attribute_value)>>])

\* the pseudo-attributes that the instruction holds
ParsedPairs(instruction) == PairsOfMatches(AttRE_finditer(<<" ">> \o instruction, 1))

\* the cache of a processing instruction, state by state
CacheState ==
    tok.kind \in PIKinds =>
        /\ (tok.kind = "PI" /\ last.op = "none") => ~tok.parsed
        /\ last.op \in {"getitem", "setitem", "delitem"} => tok.parsed
        /\ tok.parsed => tok.pseudoattributes = ParsedPairs(tok.instruction)
        /\ last.op = "set_instruction" =>
               ~tok.parsed /\ tok.pseudoattributes = <<>> /\ tok.spans = {}
        /\ last.op = "getitem" =>
               last.ret = DictGet(ParsedPairs(tok.instruction), last.key)

\* the first lookup on a token without cache records spans for the names
\* of the instruction and no others
FirstLookup ==
    (tok.kind \in PIKinds /\ ~tok.parsed /\ last'.op = "getitem") =>
        {sp[1] : sp \in tok'.spans} = Range(Keys(ParsedPairs(tok'.instruction)))

C17_ContainsIffHeld ==
    (tok.kind \in PIKinds /\ last.op = "contains") =>
        /\ last.ret = HasKey(ParsedPairs(tok.instruction), last.key)
        /\ last.ret = ~PI_getitem_value(tok, last.key).isNone

=============================================================================
